---- MODULE Spec2Model ----
(***************************************************************************)
(* PoorMansAnubis (rust_impl): the admission pipeline of the gateway.      *)
(*                                                                         *)
(* The store tables (ID_TO_PORT, CHALLENGE_FACTOR, ALLOWED_IP, SEQ_ID),    *)
(* the in-process CachedAllow and the three request handlers (handler_fn,  *)
(* factors_js_fn, api_fn) are modelled for both store backends.            *)
(*                                                                         *)
(* Time is counted in whole minutes: the store timestamps (datetime() /    *)
(* CURRENT_TIMESTAMP) and the Instants of CachedAllow are read from the    *)
(* same clock `now`.                                                       *)
(***************************************************************************)
EXTENDS Integers, Sequences, FiniteSets, Bags, TLC

(***************************************************************************)
(* Bounds of the model.                                                    *)
(***************************************************************************)
MaxTime == 2        \* the clock runs from 0 to MaxTime minutes
MaxHash == 1        \* the random ids (blake3 hex strings) are 1..MaxHash
MaxSrcPort == 1     \* source ports of the clients' sockets are 1..MaxSrcPort
MaxPort == 2        \* the listeners are bound to ports 1..MaxPort
MaxSeq == 1         \* challenges are issued while the sequence is below this
MaxProcs == 2       \* handlers in flight at the same time (SpecPar)
MaxLen == 7         \* validate_client_response is called on strings up to this length
MaxArgs == 3        \* command lines of any options have up to this many arguments
MaxAddrPorts == 34  \* command lines give up to this many --addr-port options
MaxInFlight == 1    \* requests that come in while the process serves
MaxPending == 2     \* connections waiting on one listening socket
MaxAcceptors == 3   \* listeners of the TcpVectorAcceptor (main uses it from three on)
MaxIssues == 3      \* challenges set up one after the other or at the same time (SpecIssue)
MaxPool == 3        \* primes in the pool of the challenge generator (SpecGen)
MaxQuads == 1       \* the target size of a challenge, in base64 quads (SpecGen)
MaxCalls == 4       \* calls of get_next_seq_* in a row (SpecSeq)
MaxSeqWindow == 12  \* stored counters below the wrap that a run starts from (SpecSeq)
MaxHours == 2       \* times the cleanup period passes (SpecCache)

(***************************************************************************)
(* Configuration (args::Args): the two timeouts, in minutes.               *)
(***************************************************************************)
challenge_timeout_mins == 1
allowed_timeout_mins == 1

(***************************************************************************)
(* Program constants, in minutes.                                          *)
(***************************************************************************)
CACHED_TIMEOUT == 2             \* Duration::from_secs(120)
CACHED_CLEANUP_TIMEOUT == 60    \* Duration::from_secs(3600)

(***************************************************************************)
(* Input domains.                                                          *)
(***************************************************************************)
Addrs == {"a", "b"}                 \* ip addresses, as strings
NoHeader == "<absent>"              \* the request has no x-real-ip header
XRealValues == {NoHeader, ""} \cup Addrs
Hashes == 1 .. MaxHash
SrcPorts == 1 .. MaxSrcPort
Ports == 1 .. MaxPort
NoId == 0                           \* no id (query parameter / not issued)

\* Factor-list strings, as sequences of characters.
F1 == <<"2", "x", "1", " ", "3", "x", "1">>
F2 == <<"2", "x", "2">>
FBad == <<"3", "x", "1", " ", "2", "x">>
GenFactors == {F1}                  \* what the challenge generator may return
\* "18446744073709551617x1 2x1": the first number is 2^64 + 1.
FBig == <<"1", "8", "4", "4", "6", "7", "4", "4", "0", "7", "3", "7", "0", "9", "5", "5", "1", "6", "1", "7", "x", "1", " ", "2", "x", "1">>
\* "17x1 18446744073709551629x1": the second number is the prime 2^64 + 13.
FBigPrime == <<"1", "7", "x", "1", " ", "1", "8", "4", "4", "6", "7", "4", "4", "0", "7", "3", "7", "0", "9", "5", "5", "1", "6", "2", "9", "x", "1">>
PostFactors == {F1, F2, FBad, FBig}     \* what a client may post

(***************************************************************************)
(* helpers::validate_client_response                                       *)
(***************************************************************************)
Digits == {"0", "1", "2", "3", "4", "5", "6", "7", "8", "9"}

to_digit(c) ==
    CASE c = "0" -> 0 [] c = "1" -> 1 [] c = "2" -> 2 [] c = "3" -> 3
      [] c = "4" -> 4 [] c = "5" -> 5 [] c = "6" -> 6 [] c = "7" -> 7
      [] c = "8" -> 8 [] c = "9" -> 9

is_whitespace(c) == c \in {" ", "\t", "\n"}

\* u64: a number below 2^64 is the sequence of its four 16-bit limbs, the
\* least significant first.
U64_LIMB == 65536

u64_from(d) == <<d, 0, 0, 0>>

\* a >= b
u64_ge(a, b) ==
    \/ a[4] > b[4]
    \/ a[4] = b[4] /\ a[3] > b[3]
    \/ a[4] = b[4] /\ a[3] = b[3] /\ a[2] > b[2]
    \/ a[4] = b[4] /\ a[3] = b[3] /\ a[2] = b[2] /\ a[1] >= b[1]

\* num * 10 + d in u64 arithmetic: [val, overflow], val being the wrapped
\* result and overflow telling whether the exact result is 2^64 or more.
u64_mul10_add(num, d) ==
    LET t1 == num[1] * 10 + d
        t2 == num[2] * 10 + t1 \div U64_LIMB
        t3 == num[3] * 10 + t2 \div U64_LIMB
        t4 == num[4] * 10 + t3 \div U64_LIMB
    IN  [val |-> <<t1 % U64_LIMB, t2 % U64_LIMB, t3 % U64_LIMB,
                   t4 % U64_LIMB>>,
         overflow |-> t4 \div U64_LIMB > 0]

\* One iteration of the `for c in resp.chars()` loop.  st.err is set by the
\* early returns; st.panic by an arithmetic overflow in a build with overflow
\* checks (st.checks), which wraps in a build without them.
vcr_step(st, c) ==
    IF st.err \/ st.panic THEN st
    ELSE IF st.state = "Num" THEN
        IF c \in Digits
        THEN LET r == u64_mul10_add(st.num, to_digit(c))
             IN  IF r.overflow /\ st.checks
                 THEN [st EXCEPT !.panic = TRUE]
                 ELSE [st EXCEPT !.num = r.val]
        ELSE IF c = "x"
        THEN IF u64_ge(st.max_num, st.num)
             THEN [st EXCEPT !.err = TRUE]
             ELSE [st EXCEPT !.max_num = st.num, !.num = u64_from(0),
                             !.state = "Amt"]
        ELSE [st EXCEPT !.err = TRUE]
    ELSE IF st.state = "Amt" THEN
        IF c \in Digits THEN st
        ELSE IF is_whitespace(c) THEN [st EXCEPT !.state = "Whitespace"]
        ELSE [st EXCEPT !.err = TRUE]
    ELSE \* Whitespace
        IF is_whitespace(c) THEN st
        ELSE IF c \in Digits
        THEN [st EXCEPT !.state = "Num", !.num = u64_from(to_digit(c))]
        ELSE [st EXCEPT !.err = TRUE]

RECURSIVE vcr_loop(_, _)
vcr_loop(st, s) ==
    IF s = <<>> THEN st ELSE vcr_loop(vcr_step(st, Head(s)), Tail(s))

\* validate_client_response(resp) in a build with (checks) or without
\* overflow checks: "ok" for Ok(()), "err" for Err(_), "panic".
vcr_run(resp, checks) ==
    LET end == vcr_loop([state |-> "Num", num |-> u64_from(0),
                         max_num |-> u64_from(0), err |-> FALSE,
                         panic |-> FALSE, checks |-> checks], resp)
    IN  IF end.panic THEN "panic"
        ELSE IF end.err \/ end.state # "Amt" THEN "err"
        ELSE "ok"

\* blake3::hash(..).to_string(): the digest of a string, distinct strings
\* having distinct digests.
blake3(s) == <<"blake3", s>>

(***************************************************************************)
(* State.                                                                  *)
(***************************************************************************)
VARIABLES
    mysql_has_priority,        \* args: which store backend is used
    enable_x_real_ip_header,   \* args
    now,                       \* the clock, in minutes
    seq_id,                    \* SEQ_ID / RUST_SEQ_ID: 0 = no row, else the value
    id_to_port,                \* ID_TO_PORT: set of [id, port, on_time]
    challenge_factor,          \* CHALLENGE_FACTOR: set of [id, factors, ip, port, on_time]
    allowed_ip,                \* ALLOWED_IP: bag of rows [ip, port, on_time]
    cached_allowed,            \* CachedAllow.allowed: set of [key, inst]
    cached_inst,               \* CachedAllow.inst
    hist,                      \* what the handlers in flight have done (SpecPar)
    procs,                     \* the handlers in flight (SpecPar)
    overflow_checks,           \* the build: arithmetic overflow panics
    vcr,                       \* a call of validate_client_response (SpecVcr)
    upstream_call,             \* a request being forwarded (SpecFwd)
    process,                   \* main: from the arguments to serving (SpecMain)
    acceptor,                  \* TcpVectorAcceptor and its sockets (SpecAccept)
    work,                      \* Work_Factors of one challenge generation (SpecGen)
    seq_call                   \* the last call of get_next_seq_* (SpecSeq)

vars == <<mysql_has_priority, enable_x_real_ip_header, now, seq_id, id_to_port,
          challenge_factor, allowed_ip, cached_allowed, cached_inst, hist, procs,
          overflow_checks, vcr, upstream_call, process, acceptor, work, seq_call>>

config == <<mysql_has_priority, enable_x_real_ip_header, overflow_checks>>
calls == <<vcr, upstream_call, process, acceptor, work, seq_call>>

\* vcr_run over the factor strings that are POSTed, computed once.
vcr_posted ==
    [checks \in BOOLEAN |->
        [resp \in PostFactors \cup {<<>>} |-> vcr_run(resp, checks)]]

\* TRUE iff validate_client_response returns Ok(()).
validate_client_response(resp) == vcr_posted[overflow_checks][resp] = "ok"
store == <<seq_id, id_to_port, challenge_factor, allowed_ip>>
cache == <<cached_allowed, cached_inst>>


(***************************************************************************)
(* Requests.  A request carries the socket's remote address (rip, sport),  *)
(* the x-real-ip header, the port of the listener that accepted it         *)
(* (lport), and, for the two endpoints, the id and the posted body.        *)
(***************************************************************************)
NoReq == [rip |-> "", sport |-> 0, xreal |-> NoHeader, lport |-> 0,
          id |-> NoId, json |-> TRUE, factors |-> <<>>]

HandlerReqs == [rip : Addrs, sport : SrcPorts, xreal : XRealValues,
                lport : Ports, id : {NoId}, json : {TRUE}, factors : {<<>>}]
FactorsJsReqs == [rip : Addrs, sport : SrcPorts, xreal : XRealValues,
                  lport : Ports, id : {NoId} \cup Hashes, json : {TRUE},
                  factors : {<<>>}]
\* The body of a POST either parses as a FactorsResponse (json) or it does
\* not, and then there is no id and no factors string.
ApiReqs == [rip : Addrs, sport : SrcPorts, xreal : XRealValues,
            lport : Ports, id : Hashes, json : {TRUE}, factors : PostFactors]
           \cup
           [rip : Addrs, sport : SrcPorts, xreal : XRealValues,
            lport : Ports, id : {NoId}, json : {FALSE}, factors : {<<>>}]

\* req.remote_addr().to_string()
remote_addr(req) == <<req.rip, req.sport>>

\* get_client_ip_addr that reads the header whatever the option is.
get_client_ip_addr_header_always(req) ==
    IF req.xreal # NoHeader
    THEN IF req.xreal = ""
         THEN [err |-> TRUE, addr |-> ""]
         ELSE [err |-> FALSE, addr |-> req.xreal]
    ELSE [err |-> FALSE, addr |-> req.rip]

\* get_client_ip_addr: [err, addr]
get_client_ip_addr(req) ==
    IF enable_x_real_ip_header /\ req.xreal # NoHeader
    THEN IF req.xreal = ""
         THEN [err |-> TRUE, addr |-> ""]
         ELSE [err |-> FALSE, addr |-> req.xreal]
    ELSE [err |-> FALSE, addr |-> req.rip]

(***************************************************************************)
(* The expiry tests of the two backends.                                   *)
(*   sqlite: datetime(ON_TIME, 'N minutes') < datetime('now')              *)
(*   mysql:  TIMESTAMPDIFF(MINUTE, ON_TIME, NOW()) >= N                    *)
(***************************************************************************)
sqlite_expired(on_time, mins) == on_time + mins < now
mysql_expired(on_time, mins) == now - on_time >= mins

\* The rows of ALLOWED_IP differ from each other only in the AUTOINCREMENT ID,
\* which is never read: the table is the bag of its (IP, PORT, ON_TIME) rows.

(***************************************************************************)
(* CachedAllow                                                             *)
(***************************************************************************)
\* The HashMap<String, Instant> is the set of its entries [key, inst], one
\* entry per key.

\* get_allowed: [hit, allowed]; a miss removes the key.
get_allowed(allowed, addr_port, timeout) ==
    IF \E e \in allowed : e.key = addr_port /\ now - e.inst < timeout
    THEN [hit |-> TRUE, allowed |-> allowed]
    ELSE [hit |-> FALSE, allowed |-> {e \in allowed : e.key # addr_port}]

\* add_allowed: insert(addr_port, Instant::now())
add_allowed(allowed, addr_port) ==
    {e \in allowed : e.key # addr_port}
        \cup {[key |-> addr_port, inst |-> now]}

\* check_cleanup: [allowed, inst]
check_cleanup(allowed, inst) ==
    IF now - inst > CACHED_CLEANUP_TIMEOUT
    THEN [allowed |-> {}, inst |-> now]
    ELSE [allowed |-> allowed, inst |-> inst]

(***************************************************************************)
(* ALLOWED_IP: check_is_allowed_*                                          *)
(***************************************************************************)
allowed_sweep_sqlite(ai) ==
    [r \in {x \in DOMAIN ai :
                ~sqlite_expired(x.on_time, allowed_timeout_mins)} |-> ai[r]]

allowed_sweep_mysql(ai) ==
    [r \in {x \in DOMAIN ai :
                ~mysql_expired(x.on_time, allowed_timeout_mins)} |-> ai[r]]

\* SELECT ... FROM ALLOWED_IP WHERE IP = addr AND PORT = port: any row?
allowed_select(ai, addr, port) ==
    \E r \in DOMAIN ai : r.ip = addr /\ r.port = port

\* INSERT INTO ALLOWED_IP (IP, PORT) VALUES (ip, port)
allowed_insert(ai, ip, port) ==
    ai (+) SetToBag({[ip |-> ip, port |-> port, on_time |-> now]})

\* [is_allowed, ai]
check_is_allowed_sqlite(ai, addr, port) ==
    LET swept == allowed_sweep_sqlite(ai)
    IN  [is_allowed |-> allowed_select(swept, addr, port), ai |-> swept]

check_is_allowed_mysql(ai, addr, port) ==
    LET swept == allowed_sweep_mysql(ai)
    IN  [is_allowed |-> allowed_select(swept, addr, port), ai |-> swept]

(***************************************************************************)
(* ID_TO_PORT: init_id_to_port_* and challenge_port_*                      *)
(***************************************************************************)
itp_sweep_sqlite(itp) ==
    {r \in itp : ~sqlite_expired(r.on_time, challenge_timeout_mins)}

itp_sweep_mysql(itp) ==
    {r \in itp : ~mysql_expired(r.on_time, challenge_timeout_mins)}

itp_ids(itp) == {r.id : r \in itp}

\* init_id_to_port_*: sweep, then insert the drawn hash.  The redraw loop
\* ends with a hash that is not in the table: `hash` is that last draw.
init_id_to_port_sqlite(itp, port, hash) ==
    itp_sweep_sqlite(itp) \cup {[id |-> hash, port |-> port, on_time |-> now]}

init_id_to_port_mysql(itp, port, hash) ==
    itp_sweep_mysql(itp) \cup {[id |-> hash, port |-> port, on_time |-> now]}

\* SELECT PORT FROM ID_TO_PORT WHERE ID = id
itp_select(itp, id) == {r \in itp : r.id = id}

\* DELETE FROM ID_TO_PORT WHERE ID = id
itp_delete(itp, id) == {r \in itp : r.id # id}

\* challenge_port_sqlite that takes a missing row for a row with port 0.
challenge_port_sqlite_default_port(itp, id) ==
    LET sel == itp_select(itp, id)
    IN  [ok |-> TRUE,
         port |-> IF sel # {} THEN (CHOOSE r \in sel : TRUE).port ELSE 0,
         itp |-> itp_delete(itp, id)]

\* challenge_port_*: [ok, port, itp]
challenge_port_sqlite(itp, id) ==
    LET sel == itp_select(itp, id)
    IN  IF sel # {}
        THEN [ok |-> TRUE, port |-> (CHOOSE r \in sel : TRUE).port,
              itp |-> itp_delete(itp, id)]
        ELSE [ok |-> FALSE, port |-> 0, itp |-> itp]

challenge_port_mysql(itp, id) ==
    LET sel == itp_select(itp, id)
    IN  IF sel # {}
        THEN [ok |-> TRUE, port |-> (CHOOSE r \in sel : TRUE).port,
              itp |-> itp_delete(itp, id)]
        ELSE [ok |-> FALSE, port |-> 0, itp |-> itp]

(***************************************************************************)
(* SEQ_ID: get_next_seq_*: [seq, sq], the value returned and the table     *)
(***************************************************************************)
SEQ_WRAP_MYSQL == 2147483647      \* 0x7FFFFFFF

\* n >= 0xFFFFFFFF, for n below 2^32, written with numbers below 2^31.
ge_0xFFFFFFFF(n) == n \div 2 = SEQ_WRAP_MYSQL /\ n % 2 = 1

get_next_seq_sqlite(sq) ==
    IF sq = 0
    THEN [seq |-> 1, sq |-> 1]
    ELSE [seq |-> sq, sq |-> IF ge_0xFFFFFFFF(sq + 1) THEN 1 ELSE sq + 1]

get_next_seq_mysql(sq) ==
    IF sq = 0
    THEN [seq |-> 1, sq |-> 1 + 1]
    ELSE [seq |-> sq, sq |-> IF sq + 1 >= SEQ_WRAP_MYSQL THEN 1 ELSE sq + 1]

(***************************************************************************)
(* CHALLENGE_FACTOR                                                        *)
(***************************************************************************)
cf_ids(cf) == {r.id : r \in cf}

\* SELECT ID FROM RUST_CHALLENGE_FACTORS_4 WHERE ID = hash
has_challenge_factor_id_mysql(cf, hash) == hash \in cf_ids(cf)

\* SELECT ID FROM SEQ_ID WHERE ID = hash, read as a String: the query is on
\* the SEQ_ID table, whose ID column is an integer, so that no row is ever
\* returned as Ok.
has_challenge_factor_id_sqlite(cf, hash) == FALSE

\* INSERT OR REPLACE in the place of INSERT.
set_challenge_factor_replace(cf, ip, hash, port, factors_hash) ==
    [ok |-> TRUE,
     cf |-> {r \in cf : r.id # hash}
            \cup {[id |-> hash, factors |-> factors_hash, ip |-> ip,
                   port |-> port, on_time |-> now]}]

\* INSERT INTO CHALLENGE_FACTOR ...: [ok, cf]; ID is the primary key.
set_challenge_factor(cf, ip, hash, port, factors_hash) ==
    IF hash \in cf_ids(cf)
    THEN [ok |-> FALSE, cf |-> cf]
    ELSE [ok |-> TRUE,
          cf |-> cf \cup {[id |-> hash, factors |-> factors_hash, ip |-> ip,
                           port |-> port, on_time |-> now]}]

\* set_up_factors_challenge: [ok, cf, sq].  `factors` is the generated factor
\* list and `hash` the draw on which the collision loop ends.
set_up_factors_challenge(cf, sq, ip, port, factors, hash) ==
    LET ns == IF mysql_has_priority
              THEN get_next_seq_mysql(sq) ELSE get_next_seq_sqlite(sq)
        ins == set_challenge_factor(cf, ip, hash, port, blake3(factors))
    IN  [ok |-> ins.ok, cf |-> ins.cf, sq |-> ns.sq]

cf_sweep_sqlite(cf) ==
    {r \in cf : ~sqlite_expired(r.on_time, challenge_timeout_mins)}

cf_sweep_mysql(cf) ==
    {r \in cf : ~mysql_expired(r.on_time, challenge_timeout_mins)}

\* cf_select without the comparison of the digests.
cf_select_by_id(cf, id, hashed_factors) ==
    {r \in cf : r.id = id}

\* SELECT IP, PORT FROM CHALLENGE_FACTOR WHERE ID = id AND FACTORS = hashed
cf_select(cf, id, hashed_factors) ==
    {r \in cf : r.id = id /\ r.factors = hashed_factors}

\* cf_delete that leaves the record in the table.
cf_delete_skipped(cf, id) == cf

\* DELETE FROM CHALLENGE_FACTOR WHERE ID = id
cf_delete(cf, id) == {r \in cf : r.id # id}

\* validate_client_sqlite without the comparison of the addresses.
validate_client_sqlite_any_addr(cf, ai, id, factors, addr) ==
    LET hashed_factors == blake3(factors)
        swept == cf_sweep_sqlite(cf)
        res == cf_select(swept, id, hashed_factors)
    IN  IF res # {}
        THEN LET r == CHOOSE x \in res : TRUE
             IN  IF r.port # 0
                 THEN [ok |-> TRUE, port |-> r.port,
                       cf |-> cf_delete(swept, id),
                       ai |-> allowed_insert(ai, r.ip, r.port),
                       branch |-> "correct"]
                 ELSE [ok |-> FALSE, port |-> 0, cf |-> swept, ai |-> ai,
                       branch |-> "ip_mismatch"]
        ELSE [ok |-> FALSE, port |-> 0, cf |-> swept, ai |-> ai,
              branch |-> "no_row"]

\* validate_client_*: [ok, port, cf, ai, branch]; branch names the arm of the
\* code that produced the result.
validate_client_sqlite(cf, ai, id, factors, addr) ==
    LET hashed_factors == blake3(factors)
        swept == cf_sweep_sqlite(cf)
        res == cf_select(swept, id, hashed_factors)
    IN  IF res # {}
        THEN LET r == CHOOSE x \in res : TRUE
             IN  IF r.ip = addr /\ r.port # 0
                 THEN [ok |-> TRUE, port |-> r.port,
                       cf |-> cf_delete(swept, id),
                       ai |-> allowed_insert(ai, r.ip, r.port),
                       branch |-> "correct"]
                 ELSE [ok |-> FALSE, port |-> 0, cf |-> swept, ai |-> ai,
                       branch |-> "ip_mismatch"]
        ELSE [ok |-> FALSE, port |-> 0, cf |-> swept, ai |-> ai,
              branch |-> "no_row"]

\* validate_client_mysql_locked with the DELETE after the if, run whether
\* or not a row was found.
validate_client_mysql_locked_delete_always(cf, id, factors, addr) ==
    LET swept == cf_sweep_mysql(cf)
        hashed_factors == blake3(factors)
        addr_port_row == cf_select(swept, id, hashed_factors)
    IN  IF addr_port_row # {}
        THEN LET r == CHOOSE x \in addr_port_row : TRUE
             IN  IF r.ip = addr
                 THEN [correct |-> TRUE, port |-> r.port,
                       cf |-> cf_delete(swept, id), branch |-> "correct"]
                 ELSE [correct |-> FALSE, port |-> 0,
                       cf |-> cf_delete(swept, id), branch |-> "ip_mismatch"]
        ELSE [correct |-> FALSE, port |-> 0, cf |-> cf_delete(swept, id),
              branch |-> "no_row"]

\* validate_client_mysql between LOCK TABLE ... WRITE and UNLOCK TABLES:
\* [correct, port, cf, branch]
validate_client_mysql_locked(cf, id, factors, addr) ==
    LET swept == cf_sweep_mysql(cf)
        hashed_factors == blake3(factors)
        addr_port_row == cf_select(swept, id, hashed_factors)
    IN  IF addr_port_row # {}
        THEN LET r == CHOOSE x \in addr_port_row : TRUE
             IN  IF r.ip = addr
                 THEN [correct |-> TRUE, port |-> r.port,
                       cf |-> cf_delete(swept, id), branch |-> "correct"]
                 ELSE [correct |-> FALSE, port |-> 0, cf |-> swept,
                       branch |-> "ip_mismatch"]
        ELSE [correct |-> FALSE, port |-> 0, cf |-> swept,
              branch |-> "no_row"]

validate_client_mysql(cf, ai, id, factors, addr) ==
    LET l == validate_client_mysql_locked(cf, id, factors, addr)
    IN  IF l.correct /\ l.port # 0
        THEN [ok |-> TRUE, port |-> l.port, cf |-> l.cf,
              ai |-> allowed_insert(ai, addr, l.port), branch |-> "correct"]
        ELSE [ok |-> FALSE, port |-> 0, cf |-> l.cf, ai |-> ai,
              branch |-> IF l.correct THEN "port_zero" ELSE l.branch]

(***************************************************************************)
(* What a handler does with a request in the current state: its response   *)
(* and the tables it leaves.                                               *)
(*   status: the HTTP status; fwd: the upstream was contacted;             *)
(*   id: the id embedded in the body (HTML shell / worker script);         *)
(*   port: the port the handler worked with (bound / recovered / granted); *)
(*   branch: the arm of the code that produced the response;               *)
(*   sq, itp, cf, ai, ca, ci: SEQ_ID, ID_TO_PORT, CHALLENGE_FACTOR,        *)
(*   ALLOWED_IP, CachedAllow.allowed and CachedAllow.inst afterwards.      *)
(***************************************************************************)
Result(status, fwd, id, port, branch, sq, itp, cf, ai, ca, ci) ==
    [status |-> status, fwd |-> fwd, id |-> id, port |-> port,
     branch |-> branch, sq |-> sq, itp |-> itp, cf |-> cf, ai |-> ai,
     ca |-> ca, ci |-> ci]

\* What the upstream does with a forwarded request: req_to_url is Ok with
\* the upstream's status, or Err.
UpstreamResults == {[ok |-> TRUE, status |-> 200], [ok |-> FALSE, status |-> 0]}
NoUpstream == [ok |-> FALSE, status |-> 0]

(***************************************************************************)
(* handler_fn: every path that is not one of the two endpoints.            *)
(*   hash: the draw on which init_id_to_port's redraw loop ends;           *)
(*   up: what the upstream does if the request is forwarded.               *)
(***************************************************************************)
handler_fn_result(req, hash, up) ==
    LET cc == check_cleanup(cached_allowed, cached_inst)
        a == get_client_ip_addr(req)
        port == req.lport
        ga == get_allowed(cc.allowed, remote_addr(req), CACHED_TIMEOUT)
        chk == IF mysql_has_priority
               THEN check_is_allowed_mysql(allowed_ip, a.addr, port)
               ELSE check_is_allowed_sqlite(allowed_ip, a.addr, port)
        is_allowed == ga.hit \/ chk.is_allowed
        ca == IF ~ga.hit /\ chk.is_allowed
              THEN add_allowed(ga.allowed, remote_addr(req))
              ELSE ga.allowed
        ai == IF ga.hit THEN allowed_ip ELSE chk.ai
    IN  IF a.err
        THEN Result(500, FALSE, NoId, 0, "addr_err", seq_id, id_to_port,
                    challenge_factor, allowed_ip, cc.allowed, cc.inst)
        ELSE IF is_allowed
        THEN IF up.ok
             THEN Result(up.status, TRUE, NoId, port, "forward", seq_id,
                         id_to_port, challenge_factor, ai, ca, cc.inst)
             ELSE Result(500, TRUE, NoId, port, "forward_err", seq_id,
                         id_to_port, challenge_factor, ai, ca, cc.inst)
        ELSE Result(200, FALSE, hash, port, "html", seq_id,
                    IF mysql_has_priority
                    THEN init_id_to_port_mysql(id_to_port, port, hash)
                    ELSE init_id_to_port_sqlite(id_to_port, port, hash),
                    challenge_factor, ai, ca, cc.inst)

\* factors_js_fn that gives the challenge the bound port of its own request
\* instead of the port recovered from the pending id.
factors_js_fn_result_bound_port(req, factors, hash) ==
    LET a == get_client_ip_addr(req)
        cp == IF mysql_has_priority
              THEN challenge_port_mysql(id_to_port, req.id)
              ELSE challenge_port_sqlite(id_to_port, req.id)
        su == set_up_factors_challenge(challenge_factor, seq_id, a.addr,
                                       req.lport, factors, hash)
        Fail(branch) == Result(500, FALSE, NoId, 0, branch, seq_id,
                               id_to_port, challenge_factor, allowed_ip,
                               cached_allowed, cached_inst)
    IN  IF a.err THEN Fail("addr_err")
        ELSE IF req.id = NoId THEN Fail("no_id")
        ELSE IF ~cp.ok THEN Fail("no_port")
        ELSE IF ~su.ok
        THEN Result(500, FALSE, NoId, req.lport, "insert_err", su.sq, cp.itp,
                    su.cf, allowed_ip, cached_allowed, cached_inst)
        ELSE Result(200, FALSE, hash, req.lport, "js", su.sq, cp.itp,
                    su.cf, allowed_ip, cached_allowed, cached_inst)

(***************************************************************************)
(* factors_js_fn: GET <js_factors_url>?id=<id>                             *)
(*   factors: the factor list the generator returns;                       *)
(*   hash: the draw on which set_up_factors_challenge's loop ends.         *)
(***************************************************************************)
factors_js_fn_result(req, factors, hash) ==
    LET a == get_client_ip_addr(req)
        cp == IF mysql_has_priority
              THEN challenge_port_mysql(id_to_port, req.id)
              ELSE challenge_port_sqlite(id_to_port, req.id)
        su == set_up_factors_challenge(challenge_factor, seq_id, a.addr,
                                       cp.port, factors, hash)
        Fail(branch) == Result(500, FALSE, NoId, 0, branch, seq_id,
                               id_to_port, challenge_factor, allowed_ip,
                               cached_allowed, cached_inst)
    IN  IF a.err THEN Fail("addr_err")
        ELSE IF req.id = NoId THEN Fail("no_id")
        ELSE IF ~cp.ok THEN Fail("no_port")
        ELSE IF ~su.ok
        THEN Result(500, FALSE, NoId, cp.port, "insert_err", su.sq, cp.itp,
                    su.cf, allowed_ip, cached_allowed, cached_inst)
        ELSE Result(200, FALSE, hash, cp.port, "js", su.sq, cp.itp,
                    su.cf, allowed_ip, cached_allowed, cached_inst)

(***************************************************************************)
(* api_fn: POST <api_url> {"type":"factors","id":..,"factors":..}          *)
(***************************************************************************)
api_fn_result(req) ==
    LET a == get_client_ip_addr(req)
        v == IF mysql_has_priority
             THEN validate_client_mysql(challenge_factor, allowed_ip, req.id,
                                        req.factors, a.addr)
             ELSE validate_client_sqlite(challenge_factor, allowed_ip, req.id,
                                         req.factors, a.addr)
        Fail(branch) == Result(500, FALSE, NoId, 0, branch, seq_id,
                               id_to_port, challenge_factor, allowed_ip,
                               cached_allowed, cached_inst)
    IN  IF a.err THEN Fail("addr_err")
        ELSE IF ~req.json THEN Fail("json_err")
        ELSE IF vcr_posted[overflow_checks][req.factors] = "panic"
        THEN Result(0, FALSE, NoId, 0, "panic", seq_id, id_to_port,
                    challenge_factor, allowed_ip, cached_allowed, cached_inst)
        ELSE IF ~validate_client_response(req.factors) THEN Fail("format_err")
        ELSE Result(IF v.ok THEN 200 ELSE 400, FALSE, NoId, v.port, v.branch,
                    seq_id, id_to_port, v.cf, v.ai, cached_allowed,
                    cached_inst)

(***************************************************************************)
(* Store faults.  A statement of the store fails (its `?` returns the      *)
(* Err): `fault` names the statement that fails if the handler comes to    *)
(* it.  The branch "store_err" tells that the handler came to it.          *)
(***************************************************************************)
StoreFaults == {"open", "lock", "sweep", "select", "delete", "unlock",
                "insert", "disconnect"}

\* validate_client_sqlite with the INSERT of the allowance before the DELETE
\* of the challenge.
validate_client_sqlite_fault_insert_first(cf, ai, id, factors, addr, fault) ==
    LET swept == cf_sweep_sqlite(cf)
        res == cf_select(swept, id, blake3(factors))
        r == CHOOSE x \in res : TRUE
        found == res # {} /\ r.ip = addr /\ r.port # 0
        Err(c, a) == [ok |-> FALSE, port |-> 0, cf |-> c, ai |-> a,
                      branch |-> "store_err"]
    IN  IF fault \in {"open", "sweep"} THEN Err(cf, ai)
        ELSE IF fault = "select" THEN Err(swept, ai)
        ELSE IF found /\ fault = "insert" THEN Err(swept, ai)
        ELSE IF found /\ fault = "delete"
        THEN Err(swept, allowed_insert(ai, r.ip, r.port))
        ELSE validate_client_sqlite(cf, ai, id, factors, addr)

\* validate_client_sqlite: Connection::open, the sweep, the SELECT, the
\* DELETE or the INSERT fails.  A failed SELECT is taken for no row.
validate_client_sqlite_fault(cf, ai, id, factors, addr, fault) ==
    LET swept == cf_sweep_sqlite(cf)
        res == cf_select(swept, id, blake3(factors))
        r == CHOOSE x \in res : TRUE
        found == res # {} /\ r.ip = addr /\ r.port # 0
        Err(c) == [ok |-> FALSE, port |-> 0, cf |-> c, ai |-> ai,
                   branch |-> "store_err"]
    IN  IF fault \in {"open", "sweep"} THEN Err(cf)
        ELSE IF fault = "select" THEN Err(swept)
        ELSE IF found /\ fault = "delete" THEN Err(swept)
        ELSE IF found /\ fault = "insert" THEN Err(cf_delete(swept, id))
        ELSE validate_client_sqlite(cf, ai, id, factors, addr)

\* validate_client_mysql: get_conn, LOCK TABLE, the sweep, the SELECT, the
\* DELETE, UNLOCK TABLES or the INSERT fails.
validate_client_mysql_fault(cf, ai, id, factors, addr, fault) ==
    LET l == validate_client_mysql_locked(cf, id, factors, addr)
        swept == cf_sweep_mysql(cf)
        Err(c) == [ok |-> FALSE, port |-> 0, cf |-> c, ai |-> ai,
                   branch |-> "store_err"]
    IN  IF fault \in {"open", "lock", "sweep"} THEN Err(cf)
        ELSE IF fault = "select" THEN Err(swept)
        ELSE IF l.correct /\ fault = "delete" THEN Err(swept)
        ELSE IF fault = "unlock" THEN Err(l.cf)
        ELSE IF l.correct /\ l.port # 0 /\ fault = "insert" THEN Err(l.cf)
        ELSE validate_client_mysql(cf, ai, id, factors, addr)

\* api_fn when a statement of validate_client_* fails.
api_fn_fault_result(req, fault) ==
    LET a == get_client_ip_addr(req)
        base == api_fn_result(req)
        v == IF mysql_has_priority
             THEN validate_client_mysql_fault(challenge_factor, allowed_ip,
                                              req.id, req.factors, a.addr,
                                              fault)
             ELSE validate_client_sqlite_fault(challenge_factor, allowed_ip,
                                               req.id, req.factors, a.addr,
                                               fault)
    IN  IF base.branch \in {"addr_err", "json_err", "panic", "format_err"}
        THEN base
        ELSE Result(IF v.ok THEN 200 ELSE 400, FALSE, NoId, v.port, v.branch,
                    seq_id, id_to_port, v.cf, v.ai, cached_allowed,
                    cached_inst)

\* check_is_allowed_*: [is_allowed, ai, err].  sqlite: Connection::open, the
\* sweep or the SELECT fails; mysql: get_conn, a LOCK TABLE, the sweep, an
\* UNLOCK TABLES, the SELECT or pool.disconnect fails.
check_is_allowed_sqlite_fault(ai, addr, port, fault) ==
    LET c == check_is_allowed_sqlite(ai, addr, port)
    IN  IF fault \in {"open", "sweep"}
        THEN [is_allowed |-> FALSE, ai |-> ai, err |-> TRUE]
        ELSE IF fault = "select"
        THEN [is_allowed |-> FALSE, ai |-> c.ai, err |-> TRUE]
        ELSE [is_allowed |-> c.is_allowed, ai |-> c.ai, err |-> FALSE]

check_is_allowed_mysql_fault(ai, addr, port, fault) ==
    LET c == check_is_allowed_mysql(ai, addr, port)
    IN  IF fault \in {"open", "lock", "sweep"}
        THEN [is_allowed |-> FALSE, ai |-> ai, err |-> TRUE]
        ELSE IF fault \in {"unlock", "select", "disconnect"}
        THEN [is_allowed |-> FALSE, ai |-> c.ai, err |-> TRUE]
        ELSE [is_allowed |-> c.is_allowed, ai |-> c.ai, err |-> FALSE]

\* handler_fn taking a failed check_is_allowed_* for an allowed client.
handler_fn_fault_result_fail_open(req, hash, up, fault) ==
    LET cc == check_cleanup(cached_allowed, cached_inst)
        a == get_client_ip_addr(req)
        ga == get_allowed(cc.allowed, remote_addr(req), CACHED_TIMEOUT)
        chk == IF mysql_has_priority
               THEN check_is_allowed_mysql_fault(allowed_ip, a.addr,
                                                 req.lport, fault)
               ELSE check_is_allowed_sqlite_fault(allowed_ip, a.addr,
                                                  req.lport, fault)
    IN  IF ~a.err /\ ~ga.hit /\ chk.err
        THEN Result(IF up.ok THEN up.status ELSE 500, TRUE, NoId, req.lport,
                    "store_err", seq_id, id_to_port, challenge_factor, chk.ai,
                    ga.allowed, cc.inst)
        ELSE handler_fn_result(req, hash, up)

\* handler_fn when a statement of check_is_allowed_* fails: the `?` returns
\* the Err before anything is forwarded or any id is issued.
handler_fn_fault_result(req, hash, up, fault) ==
    LET cc == check_cleanup(cached_allowed, cached_inst)
        a == get_client_ip_addr(req)
        ga == get_allowed(cc.allowed, remote_addr(req), CACHED_TIMEOUT)
        chk == IF mysql_has_priority
               THEN check_is_allowed_mysql_fault(allowed_ip, a.addr,
                                                 req.lport, fault)
               ELSE check_is_allowed_sqlite_fault(allowed_ip, a.addr,
                                                  req.lport, fault)
    IN  IF ~a.err /\ ~ga.hit /\ chk.err
        THEN Result(500, FALSE, NoId, req.lport, "store_err", seq_id,
                    id_to_port, challenge_factor, chk.ai, ga.allowed, cc.inst)
        ELSE handler_fn_result(req, hash, up)

(***************************************************************************)
(* The state machine: one action per handler, and the clock.               *)
(***************************************************************************)
\* A handler in flight: where it is in its code (pc) and its locals.
Idle == [pc |-> "idle", addr |-> "", id |-> NoId, hashed |-> <<>>, port |-> 0]

\* html, chal: the ids drawn so far by init_id_to_port and by
\* set_up_factors_challenge; taken[id]: how many calls of challenge_port
\* returned Ok for id; accepted[id]: how many POSTs with id got 200 Correct.
NoHist == [html |-> {}, chal |-> {}, taken |-> [h \in Hashes |-> 0],
           accepted |-> [h \in Hashes |-> 0]]

\* No call of validate_client_response is being looked at, and no request is
\* being forwarded.
NoVcr == [resp |-> <<>>, out |-> "idle"]
NoFwd == [pc |-> "idle"]
\* main and the acceptor are not being looked at.
NoProcess == [pc |-> "idle"]
NoAcceptor == [pc |-> "idle"]
NoWork == [pc |-> "idle"]
NoSeqCall == [pc |-> "idle"]

Init ==
    /\ mysql_has_priority \in BOOLEAN
    /\ enable_x_real_ip_header \in BOOLEAN
    /\ now = 0
    /\ seq_id = 0
    /\ id_to_port = {}
    /\ challenge_factor = {}
    /\ allowed_ip = EmptyBag
    /\ cached_allowed = {}
    /\ cached_inst = 0
    /\ hist = NoHist
    /\ procs = [p \in 1 .. MaxProcs |-> Idle]
    /\ overflow_checks \in BOOLEAN
    /\ vcr = NoVcr
    /\ upstream_call = NoFwd
    /\ process = NoProcess
    /\ acceptor = NoAcceptor
    /\ work = NoWork
    /\ seq_call = NoSeqCall

\* The handler leaves the tables and the cache of r.
Leaves(r) ==
    /\ seq_id' = r.sq
    /\ id_to_port' = r.itp
    /\ challenge_factor' = r.cf
    /\ allowed_ip' = r.ai
    /\ cached_allowed' = r.ca
    /\ cached_inst' = r.ci

\* The handler returns, leaving the state r.
Return(r) == Leaves(r) /\ UNCHANGED <<config, calls, now, hist, procs>>

\* The draws a handler can end its redraw loop with.
itp_fresh ==
    Hashes \ itp_ids(IF mysql_has_priority THEN itp_sweep_mysql(id_to_port)
                     ELSE itp_sweep_sqlite(id_to_port))

cf_fresh ==
    {h \in Hashes : IF mysql_has_priority
                    THEN ~has_challenge_factor_id_mysql(challenge_factor, h)
                    ELSE ~has_challenge_factor_id_sqlite(challenge_factor, h)}

\* A handler that never draws or never forwards is given a fixed value for
\* the draw or for the upstream's behaviour.
handler_fn ==
    \E req \in HandlerReqs :
        LET b == handler_fn_result(req, NoId, NoUpstream).branch
        IN  \E hash \in IF b = "html" THEN itp_fresh ELSE {NoId} :
                \E up \in IF b = "forward_err"
                          THEN UpstreamResults ELSE {NoUpstream} :
                    Return(handler_fn_result(req, hash, up))

factors_js_fn ==
    \E req \in FactorsJsReqs :
        LET b == factors_js_fn_result(req, <<>>, NoId).branch
        IN  IF b \in {"js", "insert_err"}
            THEN /\ seq_id < MaxSeq
                 /\ \E factors \in GenFactors, hash \in cf_fresh :
                        Return(factors_js_fn_result(req, factors, hash))
            ELSE Return(factors_js_fn_result(req, <<>>, NoId))

api_fn == \E req \in ApiReqs : Return(api_fn_result(req))

\* api_fn, a statement of validate_client_* failing.
api_fn_store_fault ==
    \E req \in ApiReqs, fault \in StoreFaults :
        LET r == api_fn_fault_result(req, fault)
        IN  r.branch = "store_err" /\ Return(r)

\* handler_fn, a statement of check_is_allowed_* failing.
handler_fn_store_fault ==
    \E req \in HandlerReqs, fault \in StoreFaults :
        LET r == handler_fn_fault_result(req, NoId, NoUpstream, fault)
        IN  r.branch = "store_err" /\ Return(r)

\* A minute passes.
Tick ==
    /\ now < MaxTime
    /\ now' = now + 1
    /\ UNCHANGED <<config, calls, store, cache, hist, procs>>

Next ==
    \/ handler_fn
    \/ factors_js_fn
    \/ api_fn
    \/ api_fn_store_fault
    \/ handler_fn_store_fault
    \/ Tick

Spec == Init /\ [][Next]_vars

(***************************************************************************)
(* SpecPar: the handlers of the two endpoints run in parallel on the       *)
(* executor's threads, each on a connection of its own.  A step of a       *)
(* handler is one SQL statement on the sqlite backend (autocommit) and one *)
(* LOCK TABLE .. UNLOCK TABLES section on the mysql backend.  A request    *)
(* that fails before its first statement changes nothing and is left out.  *)
(* No draw repeats an earlier draw, so that every id is issued at most     *)
(* once, and the clock stands still.                                       *)
(***************************************************************************)
Procs == 1 .. MaxProcs

Goto(p, pc, addr, id, hashed, port) ==
    procs' = [procs EXCEPT ![p] = [pc |-> pc, addr |-> addr, id |-> id,
                                   hashed |-> hashed, port |-> port]]

Done(p) == procs' = [procs EXCEPT ![p] = Idle]

par_handler_fn ==
    \E req \in HandlerReqs :
        LET b == handler_fn_result(req, NoId, NoUpstream).branch
        IN  \E hash \in IF b = "html" THEN itp_fresh \ hist.html ELSE {NoId} :
                \E up \in IF b = "forward_err"
                          THEN UpstreamResults ELSE {NoUpstream} :
                    /\ Leaves(handler_fn_result(req, hash, up))
                    /\ hist' = IF b = "html"
                               THEN [hist EXCEPT !.html = @ \cup {hash}]
                               ELSE hist
                    /\ UNCHANGED <<config, calls, now, procs>>

\* api_fn up to and including its first statement.
par_api_start ==
    \E p \in Procs, req \in ApiReqs :
        LET a == get_client_ip_addr(req)
            l == validate_client_mysql_locked(challenge_factor, req.id,
                                              req.factors, a.addr)
        IN  /\ procs[p].pc = "idle"
            /\ ~a.err /\ req.json /\ validate_client_response(req.factors)
            /\ IF mysql_has_priority
               THEN /\ challenge_factor' = l.cf
                    /\ IF l.correct /\ l.port # 0
                       THEN Goto(p, "v_insert", a.addr, req.id,
                                 blake3(req.factors), l.port)
                       ELSE Done(p)
               ELSE /\ challenge_factor' = cf_sweep_sqlite(challenge_factor)
                    /\ Goto(p, "v_select", a.addr, req.id,
                            blake3(req.factors), 0)
            /\ UNCHANGED <<config, calls, now, seq_id, id_to_port, allowed_ip, cache,
                           hist>>

\* validate_client_sqlite: SELECT IP, PORT FROM CHALLENGE_FACTOR ...
par_api_select ==
    \E p \in Procs :
        LET res == cf_select(challenge_factor, procs[p].id, procs[p].hashed)
            r == CHOOSE x \in res : TRUE
        IN  /\ procs[p].pc = "v_select"
            /\ IF res # {} /\ r.ip = procs[p].addr /\ r.port # 0
               THEN Goto(p, "v_delete", r.ip, procs[p].id, procs[p].hashed,
                         r.port)
               ELSE Done(p)
            /\ UNCHANGED <<config, calls, now, store, cache, hist>>

\* validate_client_sqlite: DELETE FROM CHALLENGE_FACTOR WHERE ID = ?1
par_api_delete ==
    \E p \in Procs :
        /\ procs[p].pc = "v_delete"
        /\ challenge_factor' = cf_delete(challenge_factor, procs[p].id)
        /\ Goto(p, "v_insert", procs[p].addr, procs[p].id, procs[p].hashed,
                procs[p].port)
        /\ UNCHANGED <<config, calls, now, seq_id, id_to_port, allowed_ip, cache,
                       hist>>

\* validate_client_*: INSERT INTO ALLOWED_IP ..; api_fn answers 200 Correct.
par_api_insert ==
    \E p \in Procs :
        /\ procs[p].pc = "v_insert"
        /\ allowed_ip' = allowed_insert(allowed_ip, procs[p].addr,
                                        procs[p].port)
        /\ hist' = [hist EXCEPT !.accepted[procs[p].id] = @ + 1]
        /\ Done(p)
        /\ UNCHANGED <<config, calls, now, seq_id, id_to_port, challenge_factor,
                       cache>>

\* factors_js_fn up to and including the first statement of challenge_port_*.
par_js_start ==
    \E p \in Procs, req \in FactorsJsReqs :
        LET a == get_client_ip_addr(req)
            cp == challenge_port_mysql(id_to_port, req.id)
            sel == itp_select(id_to_port, req.id)
        IN  /\ procs[p].pc = "idle"
            /\ ~a.err /\ req.id # NoId
            /\ IF mysql_has_priority
               THEN /\ id_to_port' = cp.itp
                    /\ IF cp.ok
                       THEN /\ Goto(p, "set_up", a.addr, req.id, <<>>, cp.port)
                            /\ hist' = [hist EXCEPT !.taken[req.id] = @ + 1]
                       ELSE Done(p) /\ UNCHANGED hist
               ELSE /\ UNCHANGED <<id_to_port, hist>>
                    /\ IF sel # {}
                       THEN Goto(p, "p_delete", a.addr, req.id, <<>>,
                                 (CHOOSE r \in sel : TRUE).port)
                       ELSE Done(p)
            /\ UNCHANGED <<config, calls, now, seq_id, challenge_factor, allowed_ip,
                           cache>>

\* challenge_port_sqlite: DELETE FROM ID_TO_PORT WHERE ID = ?1, and Ok(p).
par_js_delete ==
    \E p \in Procs :
        /\ procs[p].pc = "p_delete"
        /\ id_to_port' = itp_delete(id_to_port, procs[p].id)
        /\ hist' = [hist EXCEPT !.taken[procs[p].id] = @ + 1]
        /\ Goto(p, "set_up", procs[p].addr, procs[p].id, <<>>, procs[p].port)
        /\ UNCHANGED <<config, calls, now, seq_id, challenge_factor, allowed_ip,
                       cache>>

\* set_up_factors_challenge, and the worker script is returned.
par_js_set_up ==
    \E p \in Procs, factors \in GenFactors, hash \in cf_fresh \ hist.chal :
        LET su == set_up_factors_challenge(challenge_factor, seq_id,
                                           procs[p].addr, procs[p].port,
                                           factors, hash)
        IN  /\ procs[p].pc = "set_up"
            /\ seq_id' = su.sq
            /\ challenge_factor' = su.cf
            /\ hist' = [hist EXCEPT !.chal = @ \cup {hash}]
            /\ Done(p)
            /\ UNCHANGED <<config, calls, now, id_to_port, allowed_ip, cache>>

NextPar ==
    \/ par_handler_fn
    \/ par_api_start
    \/ par_api_select
    \/ par_api_delete
    \/ par_api_insert
    \/ par_js_start
    \/ par_js_delete
    \/ par_js_set_up

SpecPar == Init /\ [][NextPar]_vars

(***************************************************************************)
(* SpecVcr: helpers::validate_client_response on its own.  The input is    *)
(* any string of up to MaxLen characters of VcrAlphabet, or one of the     *)
(* strings with a number of 2^64 or more; the build is with or without     *)
(* overflow checks.                                                        *)
(***************************************************************************)
VcrAlphabet == {"1", "2", "x", " ", "a"}

VcrInputs ==
    UNION {[1 .. n -> VcrAlphabet] : n \in 0 .. MaxLen} \cup {FBig, FBigPrime}

InitVcr ==
    /\ mysql_has_priority = FALSE
    /\ enable_x_real_ip_header = FALSE
    /\ now = 0
    /\ seq_id = 0
    /\ id_to_port = {}
    /\ challenge_factor = {}
    /\ allowed_ip = EmptyBag
    /\ cached_allowed = {}
    /\ cached_inst = 0
    /\ hist = NoHist
    /\ procs = [p \in 1 .. MaxProcs |-> Idle]
    /\ overflow_checks \in BOOLEAN
    /\ vcr \in [resp : VcrInputs, out : {"called"}]
    /\ upstream_call = NoFwd
    /\ process = NoProcess
    /\ acceptor = NoAcceptor
    /\ work = NoWork
    /\ seq_call = NoSeqCall

\* validate_client_response(vcr.resp) runs to its end.
call_validate_client_response ==
    /\ vcr.out = "called"
    /\ vcr' = [vcr EXCEPT !.out = vcr_run(vcr.resp, overflow_checks)]
    /\ UNCHANGED <<config, now, store, cache, hist, procs, upstream_call,
                   process, acceptor, work, seq_call>>

NextVcr == call_validate_client_response

SpecVcr == InitVcr /\ [][NextVcr]_vars

(***************************************************************************)
(* The forwarding arm of handler_fn (is_allowed is true), statement by     *)
(* statement: the url is resolved, req_to_url sends the request, and the   *)
(* upstream's answer or the failure is written into the response.          *)
(***************************************************************************)
NoKey == "<none>"                   \* HeaderMap::into_iter's None key
Methods == {"GET", "POST"}          \* the inbound request's method
Paths == {"/", "/a?b=c"}            \* req.uri().path_and_query()
Payloads == {<<>>, <<1>>}           \* req.payload(): empty or not
OverrideValues == {NoHeader, "http://override"}
DestUrls == {"http://default"}      \* args.dest_url
MappedUrls == {"http://m1", "http://m2"}
\* args.port_to_dest_urls: a map from some of the ports to urls
PortToDestUrls == UNION {[S -> MappedUrls] : S \in SUBSET Ports}

\* A HeaderMap: for each name the values in their order.
NoHeaders == [n \in {} |-> <<>>]
UpstreamHeaders ==
    {NoHeaders,
     [n \in {"content-type"} |-> <<"text/html">>],
     [n \in {"content-type", "set-cookie"} |->
         IF n = "set-cookie" THEN <<"a=1", "b=2">> ELSE <<"text/html">>]}

\* What reqwest returns: the upstream's answer, or an Err (connect, send or
\* reading the body failed).
TransportError == [ok |-> FALSE, status |-> 0, headers |-> NoHeaders,
                   body |-> ""]
UpstreamAnswers == [ok : {TRUE}, status : {200, 404},
                    headers : UpstreamHeaders, body : {"", "<html>"}]
                   \cup {TransportError}

NoSent == [method |-> "", url |-> "", body |-> <<>>, headers |-> NoHeaders]
NoRes == [status |-> 0, headers |-> NoHeaders, body |-> ""]

\* get_mapped_port_to_dest: [ok, dest]
get_mapped_port_to_dest(port_to_dest_urls, port) ==
    IF port \in DOMAIN port_to_dest_urls
    THEN [ok |-> TRUE, dest |-> port_to_dest_urls[port]]
    ELSE [ok |-> FALSE, dest |-> ""]

\* The url with the override header read whatever the flag says.
resolve_url_header_always(args, req) ==
    LET m == get_mapped_port_to_dest(args.port_to_dest_urls, req.lport)
    IN  IF req.override # NoHeader THEN req.override
        ELSE IF m.ok THEN m.dest
        ELSE args.dest_url

\* let url = if args.enable_override_dest_url { .. } else ..
resolve_url(args, req) ==
    LET m == get_mapped_port_to_dest(args.port_to_dest_urls, req.lport)
    IN  IF args.enable_override_dest_url
        THEN IF req.override # NoHeader THEN req.override
             ELSE IF m.ok THEN m.dest
             ELSE args.dest_url
        ELSE IF m.ok THEN m.dest
        ELSE args.dest_url

\* req_to_url's request: real_ip is Some; a POST with the body when body is
\* Some, a GET without body when it is None.
req_to_url_request(url, real_ip, body_is_some, body) ==
    [method |-> IF body_is_some THEN "POST" ELSE "GET",
     url |-> url,
     body |-> IF body_is_some THEN body ELSE <<>>,
     headers |-> [n \in {"x-real-ip", "accept"} |->
                     IF n = "x-real-ip" THEN <<real_ip>>
                     ELSE <<"text/html,application/xhtml+xml,*/*">>]]

\* The request handler_fn has req_to_url send: body is None iff the payload
\* is empty.
forward_request(url, req) ==
    req_to_url_request(url \o req.path, req.addr, req.payload # <<>>,
                       req.payload)

\* HeaderMap::into_iter: the items (key, value); the key is the name for the
\* first value of a name and None for its further values.  (n, i) is the
\* place of the item.
into_iter(headers) ==
    UNION {{[k |-> IF i = 1 THEN n ELSE NoKey, n |-> n, i |-> i,
             v |-> headers[n][i]] : i \in 1 .. Len(headers[n])} :
              n \in DOMAIN headers}

\* for (k_opt, v) in headers { if let Some(k) = k_opt { append(k, v) } }
append_headers(headers) ==
    LET kept(n) == {e \in into_iter(headers) : e.k = n}
    IN  [n \in {e.k : e \in into_iter(headers)} \ {NoKey} |->
            [j \in 1 .. Cardinality(kept(n)) |->
                (CHOOSE e \in kept(n) :
                    Cardinality({f \in kept(n) : f.i < e.i}) = j - 1).v]]

\* The response with 502 for the failure.
response_of_bad_gateway(answer) ==
    IF answer.ok
    THEN [status |-> answer.status, headers |-> append_headers(answer.headers),
          body |-> answer.body]
    ELSE [status |-> 502, headers |-> NoHeaders, body |-> "Failed to query"]

\* if let Ok((res_body, status, headers)) = res_body_res { .. } else { .. }
response_of(answer) ==
    IF answer.ok
    THEN [status |-> answer.status, headers |-> append_headers(answer.headers),
          body |-> answer.body]
    ELSE [status |-> 500, headers |-> NoHeaders, body |-> "Failed to query"]

\* An allowed request has come to the forwarding arm; the client's allowance
\* may still be in the table.
InitFwd ==
    /\ mysql_has_priority = FALSE
    /\ enable_x_real_ip_header = FALSE
    /\ now = 0
    /\ seq_id = 0
    /\ id_to_port = {}
    /\ challenge_factor = {}
    /\ cached_allowed = {}
    /\ cached_inst = 0
    /\ hist = NoHist
    /\ procs = [p \in 1 .. MaxProcs |-> Idle]
    /\ overflow_checks = FALSE
    /\ vcr = NoVcr
    /\ process = NoProcess
    /\ acceptor = NoAcceptor
    /\ work = NoWork
    /\ seq_call = NoSeqCall
    /\ \E args \in [enable_override_dest_url : BOOLEAN,
                    port_to_dest_urls : PortToDestUrls, dest_url : DestUrls],
          req \in [method : Methods, path : Paths, payload : Payloads,
                   override : OverrideValues, lport : Ports, addr : {"a"}],
          answer \in UpstreamAnswers :
          /\ allowed_ip = allowed_insert(EmptyBag, req.addr, req.lport)
          /\ upstream_call = [pc |-> "allowed", args |-> args, req |-> req,
                              answer |-> answer, url |-> "", sent |-> NoSent,
                              res |-> NoRes,
                              tables |-> <<{}, {}, allowed_ip>>]

\* let url = ..
fwd_resolve ==
    /\ upstream_call.pc = "allowed"
    /\ upstream_call' =
          [upstream_call EXCEPT
              !.pc = "resolved",
              !.url = resolve_url(upstream_call.args, upstream_call.req)]
    /\ UNCHANGED <<config, now, store, cache, hist, procs, vcr, process,
                   acceptor, work, seq_call>>

\* req_to_url(..).await
fwd_send ==
    /\ upstream_call.pc = "resolved"
    /\ upstream_call' =
          [upstream_call EXCEPT
              !.pc = IF upstream_call.answer.ok THEN "ok" ELSE "err",
              !.sent = forward_request(upstream_call.url, upstream_call.req)]
    /\ UNCHANGED <<config, now, store, cache, hist, procs, vcr, process,
                   acceptor, work, seq_call>>

\* The Ok arm: body, status and headers are written into the response.
fwd_copy ==
    /\ upstream_call.pc = "ok"
    /\ upstream_call' =
          [upstream_call EXCEPT
              !.pc = "done", !.res = response_of(upstream_call.answer)]
    /\ UNCHANGED <<config, now, store, cache, hist, procs, vcr, process,
                   acceptor, work, seq_call>>

\* The Err arm: "Failed to query", 500.
fwd_failed ==
    /\ upstream_call.pc = "err"
    /\ upstream_call' =
          [upstream_call EXCEPT
              !.pc = "failed", !.res = response_of(upstream_call.answer)]
    /\ UNCHANGED <<config, now, store, cache, hist, procs, vcr, process,
                   acceptor, work, seq_call>>

NextFwd == fwd_resolve \/ fwd_send \/ fwd_copy \/ fwd_failed

SpecFwd == InitFwd /\ [][NextFwd]_vars

(***************************************************************************)
(* SpecMain: args::parse_args and main, from the command line to serving,  *)
(* and a signal delivered to the process.                                  *)
(***************************************************************************)
\* An argument: the option and, for --addr-port=, which address it names.
Flag(opt) == [opt |-> opt, val |-> 0]
AddrPort(k) == [opt |-> "--addr-port=", val |-> k]
DefaultAddrPort == 0                \* "127.0.0.1:8180"

ArgAlphabet ==
    {Flag("--help"), Flag("--enable-override-dest-url"),
     Flag("--important-warning-has-been-read"),
     Flag("--enable-x-real-ip-header"), Flag("--unknown"), AddrPort(1)}

\* The command lines: any MaxArgs arguments, and up to MaxAddrPorts
\* --addr-port options with different addresses.
Argvs ==
    UNION {[1 .. n -> ArgAlphabet] : n \in 0 .. MaxArgs}
    \cup {[i \in 1 .. n |-> AddrPort(i)] : n \in 0 .. MaxAddrPorts}

\* parse_args before the loop; returned: the loop has returned an Err.
parse_args_start ==
    [addr_port_strs |-> <<DefaultAddrPort>>, is_default_addr_port_strs |-> TRUE,
     enable_x_real_ip_header |-> FALSE, enable_override_dest_url |-> FALSE,
     override_dest_url_warning_read |-> FALSE, returned |-> FALSE]

\* The loop's body with the warning asked for when the option is read.
parse_arg_warning_first(acc, arg) ==
    IF acc.returned THEN acc
    ELSE IF arg.opt = "--help" THEN [acc EXCEPT !.returned = TRUE]
    ELSE IF arg.opt = "--addr-port="
    THEN IF acc.is_default_addr_port_strs
         THEN [acc EXCEPT !.addr_port_strs = <<arg.val>>,
                          !.is_default_addr_port_strs = FALSE]
         ELSE [acc EXCEPT !.addr_port_strs = Append(@, arg.val)]
    ELSE IF arg.opt = "--enable-x-real-ip-header"
    THEN [acc EXCEPT !.enable_x_real_ip_header = TRUE]
    ELSE IF arg.opt = "--enable-override-dest-url"
    THEN IF acc.override_dest_url_warning_read
         THEN [acc EXCEPT !.enable_override_dest_url = TRUE]
         ELSE [acc EXCEPT !.returned = TRUE]
    ELSE IF arg.opt = "--important-warning-has-been-read"
    THEN [acc EXCEPT !.override_dest_url_warning_read = TRUE]
    ELSE acc

\* The body of `for mut arg in p_args.skip(1)`.
parse_arg(acc, arg) ==
    IF acc.returned THEN acc
    ELSE IF arg.opt = "--help" THEN [acc EXCEPT !.returned = TRUE]
    ELSE IF arg.opt = "--addr-port="
    THEN IF acc.is_default_addr_port_strs
         THEN [acc EXCEPT !.addr_port_strs = <<arg.val>>,
                          !.is_default_addr_port_strs = FALSE]
         ELSE [acc EXCEPT !.addr_port_strs = Append(@, arg.val)]
    ELSE IF arg.opt = "--enable-x-real-ip-header"
    THEN [acc EXCEPT !.enable_x_real_ip_header = TRUE]
    ELSE IF arg.opt = "--enable-override-dest-url"
    THEN [acc EXCEPT !.enable_override_dest_url = TRUE]
    ELSE IF arg.opt = "--important-warning-has-been-read"
    THEN [acc EXCEPT !.override_dest_url_warning_read = TRUE]
    ELSE acc

RECURSIVE parse_args_loop(_, _)
parse_args_loop(acc, argv) ==
    IF argv = <<>> THEN acc
    ELSE parse_args_loop(parse_arg(acc, Head(argv)), Tail(argv))

\* parse_args: [ok, addr_port_strs, enable_x_real_ip_header,
\* enable_override_dest_url]; ok is FALSE for Err.
parse_args(argv) ==
    LET end == parse_args_loop(parse_args_start, argv)
    IN  [ok |-> ~end.returned
                /\ ~(end.enable_override_dest_url
                     /\ ~end.override_dest_url_warning_read),
         addr_port_strs |-> end.addr_port_strs,
         enable_x_real_ip_header |-> end.enable_x_real_ip_header,
         enable_override_dest_url |-> end.enable_override_dest_url]

NoArgs == [ok |-> FALSE, addr_port_strs |-> <<>>,
           enable_x_real_ip_header |-> FALSE,
           enable_override_dest_url |-> FALSE]

Signals == {"SIGINT", "SIGHUP", "SIGTERM"}
NoSignal == "<none>"

\* signal::handle_signal: what it makes of SIGNAL_HANDLED.
handle_signal(flag, sig) ==
    IF sig = "SIGINT" \/ sig = "SIGHUP" \/ sig = "SIGTERM" THEN TRUE ELSE flag

\* The process is started with a command line.  registered: sigaction has
\* installed handle_signal; main never calls register_signal_handlers.
InitMain ==
    /\ mysql_has_priority = FALSE
    /\ enable_x_real_ip_header = FALSE
    /\ now = 0
    /\ seq_id = 0
    /\ id_to_port = {}
    /\ challenge_factor = {}
    /\ allowed_ip = EmptyBag
    /\ cached_allowed = {}
    /\ cached_inst = 0
    /\ hist = NoHist
    /\ procs = [p \in 1 .. MaxProcs |-> Idle]
    /\ overflow_checks = FALSE
    /\ vcr = NoVcr
    /\ upstream_call = NoFwd
    /\ acceptor = NoAcceptor
    /\ work = NoWork
    /\ seq_call = NoSeqCall
    /\ \E argv \in Argvs :
          process = [pc |-> "start", argv |-> argv, args |-> NoArgs,
                     bound |-> 0, in_flight |-> 0, answered |-> 0,
                     aborted |-> 0,
                     registered |-> FALSE, SIGNAL_HANDLED |-> FALSE,
                     signal |-> NoSignal]

MainFrame ==
    UNCHANGED <<config, now, store, cache, hist, procs, vcr, upstream_call,
                acceptor, work, seq_call>>

\* let mut parsed_args = args::parse_args().unwrap();
main_parse_args ==
    /\ process.pc = "start"
    /\ process' = [process EXCEPT
                      !.args = parse_args(process.argv),
                      !.pc = IF parse_args(process.argv).ok THEN "parsed"
                             ELSE "exited"]
    /\ MainFrame

\* init_db(&parsed_args).await.expect(..)
main_init_db ==
    /\ process.pc = "parsed"
    /\ \E ok \in BOOLEAN :
          process' = [process EXCEPT !.pc = IF ok THEN "init" ELSE "exited"]
    /\ MainFrame

\* One of the listeners is bound: TcpListener::new(addr).bind(), or
\* listener.try_bind() in TcpVectorListener::try_bind.
main_bind ==
    /\ process.pc = "init"
    /\ process.bound < Len(process.args.addr_port_strs)
    /\ process' = [process EXCEPT !.bound = @ + 1]
    /\ MainFrame

\* Server::new(acceptor).serve(router)
main_serve ==
    /\ process.pc = "init"
    /\ process.bound = Len(process.args.addr_port_strs)
    /\ process' = [process EXCEPT !.pc = "serving"]
    /\ MainFrame

\* A request comes in, and a request is answered.
main_request ==
    /\ process.pc = "serving"
    /\ process.in_flight + process.answered < MaxInFlight
    /\ process' = [process EXCEPT !.in_flight = @ + 1]
    /\ MainFrame

main_response ==
    /\ process.pc = "serving"
    /\ process.in_flight > 0
    /\ process' = [process EXCEPT !.in_flight = @ - 1, !.answered = @ + 1]
    /\ MainFrame

\* A signal is delivered.  With handle_signal installed it sets the flag;
\* without it the signal's default action ends the process at once, with
\* the requests in flight unanswered.
deliver_signal ==
    /\ process.pc \in {"start", "parsed", "init", "serving"}
    /\ process.signal = NoSignal
    /\ \E sig \in Signals :
          process' =
              IF process.registered
              THEN [process EXCEPT
                       !.signal = sig,
                       !.SIGNAL_HANDLED = handle_signal(@, sig)]
              ELSE [process EXCEPT
                       !.signal = sig, !.pc = "killed",
                       !.aborted = process.in_flight, !.in_flight = 0]
    /\ MainFrame

NextMain ==
    \/ main_parse_args
    \/ main_init_db
    \/ main_bind
    \/ main_serve
    \/ main_request
    \/ main_response
    \/ deliver_signal

SpecMain == InitMain /\ [][NextMain]_vars

(***************************************************************************)
(* SpecAccept: salvo_compat::TcpVectorAcceptor::accept, called again and   *)
(* again by the server, over listening sockets on which connections come   *)
(* in.                                                                     *)
(***************************************************************************)
Acceptors == 1 .. MaxAcceptors      \* the places in self.acceptors
NoAcceptorYet == 0                  \* accept has not returned yet

\* The accept futures that are ready: a connection waits on their socket.
ready_acceptors(pending) == {i \in Acceptors : pending[i] > 0}

\* The orders in which a FuturesUnordered made from the acceptors in the
\* order of the vector can poll its futures.
PollOrders ==
    {o \in [Acceptors -> Acceptors] : \A i \in Acceptors : \E k \in Acceptors : o[k] = i}

\* The accept futures that complete when they are polled: with a connection
\* or with an io::Error of their socket.
done_acceptors(pending, failed) ==
    ready_acceptors(pending) \cup {i \in Acceptors : failed[i]}

\* try_ready_chunks(1).next(): the first in the poll order that completes.
first_ready(order, pending, failed) ==
    order[CHOOSE k \in Acceptors :
              /\ order[k] \in done_acceptors(pending, failed)
              /\ \A j \in 1 .. k - 1 :
                     order[j] \notin done_acceptors(pending, failed)]

InitAccept ==
    /\ mysql_has_priority = FALSE
    /\ enable_x_real_ip_header = FALSE
    /\ now = 0
    /\ seq_id = 0
    /\ id_to_port = {}
    /\ challenge_factor = {}
    /\ allowed_ip = EmptyBag
    /\ cached_allowed = {}
    /\ cached_inst = 0
    /\ hist = NoHist
    /\ procs = [p \in 1 .. MaxProcs |-> Idle]
    /\ overflow_checks = FALSE
    /\ vcr = NoVcr
    /\ upstream_call = NoFwd
    /\ process = NoProcess
    /\ \E order \in PollOrders :
          acceptor = [pc |-> "serving", order |-> order,
                      pending |-> [i \in Acceptors |-> 0],
                      failed |-> [i \in Acceptors |-> FALSE],
                      last |-> NoAcceptorYet, err |-> FALSE]
    /\ work = NoWork
    /\ seq_call = NoSeqCall

AcceptFrame ==
    UNCHANGED <<config, now, store, cache, hist, procs, vcr, upstream_call,
                process, work, seq_call>>

\* A client connects to the socket of listener i.
connect ==
    /\ acceptor.pc = "serving"
    /\ \E i \in Acceptors :
          /\ acceptor.pending[i] < MaxPending
          /\ acceptor' = [acceptor EXCEPT !.pending[i] = @ + 1]
    /\ AcceptFrame

\* One call of accept: a new FuturesUnordered of every acceptor's accept
\* future, made in the order of the vector; the first item that is ready is
\* returned and the other futures are dropped.  Nothing is kept from one
\* call to the next, so every call polls in the same order.
accept ==
    /\ acceptor.pc = "serving"
    /\ done_acceptors(acceptor.pending, acceptor.failed) # {}
    /\ LET i == first_ready(acceptor.order, acceptor.pending, acceptor.failed)
       IN  acceptor' = IF acceptor.failed[i]
                       THEN [acceptor EXCEPT !.failed[i] = FALSE, !.last = i,
                                             !.err = TRUE]
                       ELSE [acceptor EXCEPT !.pending[i] = @ - 1, !.last = i,
                                             !.err = FALSE]
    /\ AcceptFrame

\* The next accept on the socket of listener i gives an io::Error.
accept_error ==
    /\ acceptor.pc = "serving"
    /\ \E i \in Acceptors :
          /\ ~acceptor.failed[i]
          /\ acceptor' = [acceptor EXCEPT !.failed[i] = TRUE]
    /\ AcceptFrame

NextAccept == connect \/ accept \/ accept_error

\* The server calls accept again as soon as it has returned.
SpecAccept == InitAccept /\ [][NextAccept]_vars /\ WF_vars(accept)

(***************************************************************************)
(* SpecIssue: set_up_factors_challenge statement by statement, by handlers *)
(* that run at the same time: the next sequence number, the draw of an id  *)
(* that has_challenge_factor_id_* does not find, and the INSERT.  A draw   *)
(* may repeat an earlier one.                                              *)
(***************************************************************************)
InitIssue ==
    /\ mysql_has_priority \in BOOLEAN
    /\ enable_x_real_ip_header = FALSE
    /\ now = 0
    /\ seq_id = 0
    /\ id_to_port = {}
    /\ challenge_factor = {}
    /\ allowed_ip = EmptyBag
    /\ cached_allowed = {}
    /\ cached_inst = 0
    /\ hist = NoHist
    /\ procs = [p \in 1 .. MaxProcs |-> Idle]
    /\ overflow_checks = FALSE
    /\ vcr = NoVcr
    /\ upstream_call = NoFwd
    /\ process = NoProcess
    /\ acceptor = NoAcceptor
    /\ work = NoWork
    /\ seq_call = NoSeqCall

\* get_next_seq_*, for a client ip and the port of its html request.
issue_next_seq ==
    \E p \in Procs, ip \in Addrs, port \in Ports :
        /\ procs[p].pc = "idle"
        /\ seq_id <= MaxIssues
        /\ seq_id' = (IF mysql_has_priority THEN get_next_seq_mysql(seq_id)
                      ELSE get_next_seq_sqlite(seq_id)).sq
        /\ Goto(p, "draw", ip, NoId, <<>>, port)
        /\ UNCHANGED <<config, calls, now, id_to_port, challenge_factor,
                       allowed_ip, cache, hist>>

\* The loop up to the draw that has_challenge_factor_id_* does not find.
issue_draw ==
    \E p \in Procs, hash \in cf_fresh :
        /\ procs[p].pc = "draw"
        /\ Goto(p, "insert", procs[p].addr, hash, <<>>, procs[p].port)
        /\ UNCHANGED <<config, calls, now, store, cache, hist>>

\* set_challenge_factor_*: the INSERT.
issue_insert ==
    \E p \in Procs, factors \in GenFactors :
        LET ins == set_challenge_factor(challenge_factor, procs[p].addr,
                                             procs[p].id, procs[p].port,
                                             blake3(factors))
        IN  /\ procs[p].pc = "insert"
            /\ challenge_factor' = ins.cf
            /\ Goto(p, IF ins.ok THEN "inserted" ELSE "insert_err",
                    procs[p].addr, procs[p].id, <<>>, procs[p].port)
            /\ UNCHANGED <<config, calls, now, seq_id, id_to_port, allowed_ip,
                           cache, hist>>

\* Ok((value, hash)), or the Err of the INSERT.
issue_return ==
    \E p \in Procs :
        /\ procs[p].pc \in {"inserted", "insert_err"}
        /\ Done(p)
        /\ UNCHANGED <<config, calls, now, store, cache, hist>>

NextIssue == issue_next_seq \/ issue_draw \/ issue_insert \/ issue_return

SpecIssue == InitIssue /\ [][NextIssue]_vars

(***************************************************************************)
(* SpecGen: one challenge generation.  ffi::WorkFactorsWrapper and         *)
(* generate_value_and_factors_strings are the callers in src/; the         *)
(* generator they call (work_generate_target_factors and the two           *)
(* ..._to_str functions of challenge_impl) is modelled from the            *)
(* ChallengeBuilder section of the specification.  Numbers are decimal     *)
(* numerals, sequences of digit characters, of any length.                 *)
(***************************************************************************)
SmallPrimes == <<2, 3, 5, 7, 11>>
PrimePool == {SmallPrimes[i] : i \in 1 .. MaxPool}

DigitChars == <<"0", "1", "2", "3", "4", "5", "6", "7", "8", "9">>
to_char(d) == DigitChars[d + 1]

RECURSIVE to_decimal(_)
to_decimal(n) ==
    IF n < 10 THEN <<to_char(n)>>
    ELSE to_decimal(n \div 10) \o <<to_char(n % 10)>>

\* num * p + carry, for a numeral num and a small p.
RECURSIVE big_mul(_, _, _)
big_mul(num, p, carry) ==
    IF num = <<>> THEN (IF carry = 0 THEN <<>> ELSE to_decimal(carry))
    ELSE LET v == to_digit(num[Len(num)]) * p + carry
         IN  big_mul(SubSeq(num, 1, Len(num) - 1), p, v \div 10)
                 \o <<to_char(v % 10)>>

Base64Alphabet ==
    <<"A", "B", "C", "D", "E", "F", "G", "H", "I", "J", "K", "L", "M", "N", "O", "P",
      "Q", "R", "S", "T", "U", "V", "W", "X", "Y", "Z", "a", "b", "c", "d", "e", "f",
      "g", "h", "i", "j", "k", "l", "m", "n", "o", "p", "q", "r", "s", "t", "u", "v",
      "w", "x", "y", "z", "0", "1", "2", "3", "4", "5", "6", "7", "8", "9", "+", "/">>

\* The four bits of a decimal digit, the most significant first.
nibble(d) == <<d \div 8, (d \div 4) % 2, (d \div 2) % 2, d % 2>>

RECURSIVE nibbles(_)
nibbles(num) ==
    IF num = <<>> THEN <<>>
    ELSE nibble(to_digit(num[1])) \o nibbles(Tail(num))

\* The bits in groups of six, zeros before the first group where it is short.
sextets(bits) ==
    LET pad == (6 - (Len(bits) % 6)) % 6
        b == [i \in 1 .. pad |-> 0] \o bits
    IN  [g \in 1 .. Len(b) \div 6 |->
            32 * b[6 * g - 5] + 16 * b[6 * g - 4] + 8 * b[6 * g - 3]
            + 4 * b[6 * g - 2] + 2 * b[6 * g - 1] + b[6 * g]]

\* The base64 of the decimal digits of the number, after the leading B.
work_factors_value_to_str(w) ==
    LET sx == sextets(nibbles(w.acc))
    IN  <<"B">> \o [g \in 1 .. Len(sx) |-> Base64Alphabet[sx[g] + 1]]

\* "<prime>x<mult>" of every prime that was used, from the k-th prime of the
\* pool on, in the order of the pool, one space between two.
RECURSIVE factors_from(_, _)
factors_from(w, k) ==
    IF k > MaxPool THEN <<>>
    ELSE LET p == SmallPrimes[k]
             rest == factors_from(w, k + 1)
             tok == to_decimal(p) \o <<"x">> \o to_decimal(w.mult[p])
         IN  IF w.mult[p] = 0 THEN rest
             ELSE IF rest = <<>> THEN tok
             ELSE tok \o <<" ">> \o rest

work_factors_factors_to_str(w) == factors_from(w, 1)

\* The encoded size has reached the target.
target_reached(w) == Len(work_factors_value_to_str(w)) >= 4 * w.digits

\* WorkFactorsWrapper::get_value
get_value(w) == work_factors_value_to_str(w)

\* get_factors that calls work_factors_value_to_str as get_value does.
get_factors_of_value(w) == work_factors_value_to_str(w)

\* WorkFactorsWrapper::get_factors
get_factors(w) == work_factors_factors_to_str(w)

\* (wf.get_value(), wf.get_factors())
generate_value_and_factors_strings(w) ==
    [value |-> get_value(w), factors |-> get_factors(w)]

\* WorkFactorsWrapper::new(digits), as work_generate_target_factors starts.
InitGen ==
    /\ mysql_has_priority = FALSE
    /\ enable_x_real_ip_header = FALSE
    /\ now = 0
    /\ seq_id = 0
    /\ id_to_port = {}
    /\ challenge_factor = {}
    /\ allowed_ip = EmptyBag
    /\ cached_allowed = {}
    /\ cached_inst = 0
    /\ hist = NoHist
    /\ procs = [p \in 1 .. MaxProcs |-> Idle]
    /\ overflow_checks = FALSE
    /\ vcr = NoVcr
    /\ upstream_call = NoFwd
    /\ process = NoProcess
    /\ acceptor = NoAcceptor
    /\ \E digits \in 1 .. MaxQuads :
          work = [pc |-> "generating", digits |-> digits, acc |-> <<"1">>,
                  mult |-> [p \in PrimePool |-> 0],
                  value |-> <<>>, factors |-> <<>>]
    /\ seq_call = NoSeqCall

GenFrame ==
    UNCHANGED <<config, now, store, cache, hist, procs, vcr, upstream_call,
                process, acceptor, seq_call>>

\* One more prime of the pool is multiplied into the accumulator.
work_multiply ==
    /\ work.pc = "generating"
    /\ ~target_reached(work)
    /\ \E p \in PrimePool :
          work' = [work EXCEPT !.acc = big_mul(@, p, 0), !.mult[p] = @ + 1]
    /\ GenFrame

\* work_generate_target_factors returns the Work_Factors.
work_generate_target_factors ==
    /\ work.pc = "generating"
    /\ target_reached(work)
    /\ work' = [work EXCEPT !.pc = "generated"]
    /\ GenFrame

\* generate_value_and_factors_strings returns the two strings.
work_strings ==
    /\ work.pc = "generated"
    /\ LET r == generate_value_and_factors_strings(work)
       IN  work' = [work EXCEPT !.pc = "returned", !.value = r.value,
                                !.factors = r.factors]
    /\ GenFrame

NextGen == work_multiply \/ work_generate_target_factors \/ work_strings

SpecGen == InitGen /\ [][NextGen]_vars

(***************************************************************************)
(* SpecSeq: calls of get_next_seq_* one after the other, from the empty    *)
(* table or from a counter that earlier calls have brought near the wrap.  *)
(***************************************************************************)
SeqStarts == {0} \cup ((SEQ_WRAP_MYSQL - MaxSeqWindow) .. (SEQ_WRAP_MYSQL - 1))

InitSeq ==
    /\ mysql_has_priority \in BOOLEAN
    /\ enable_x_real_ip_header = FALSE
    /\ now = 0
    /\ seq_id \in SeqStarts
    /\ id_to_port = {}
    /\ challenge_factor = {}
    /\ allowed_ip = EmptyBag
    /\ cached_allowed = {}
    /\ cached_inst = 0
    /\ hist = NoHist
    /\ procs = [p \in 1 .. MaxProcs |-> Idle]
    /\ overflow_checks = FALSE
    /\ vcr = NoVcr
    /\ upstream_call = NoFwd
    /\ process = NoProcess
    /\ acceptor = NoAcceptor
    /\ work = NoWork
    /\ seq_call = [pc |-> "called", n |-> 0, before |-> 0, seq |-> 0,
                   prev |-> 0]

\* One call of get_next_seq_*: before is the table as the call finds it,
\* seq the value it returns and prev the value the call before it returned.
call_get_next_seq ==
    LET r == IF mysql_has_priority THEN get_next_seq_mysql(seq_id)
             ELSE get_next_seq_sqlite(seq_id)
    IN  /\ seq_call.pc = "called"
        /\ seq_call.n < MaxCalls
        /\ seq_id < SEQ_WRAP_MYSQL
        /\ seq_id' = r.sq
        /\ seq_call' = [pc |-> "called", n |-> seq_call.n + 1,
                        before |-> seq_id, seq |-> r.seq,
                        prev |-> seq_call.seq]
        /\ UNCHANGED <<config, now, id_to_port, challenge_factor, allowed_ip,
                       cache, hist, procs, vcr, upstream_call, process,
                       acceptor, work>>

NextSeq == call_get_next_seq

SpecSeq == InitSeq /\ [][NextSeq]_vars

(***************************************************************************)
(* SpecCache: the calls of CachedAllow (get_allowed, add_allowed,           *)
(* check_cleanup) that the concurrent handlers make, a step at a time.     *)
(* CachedAllow has two mutexes, allowed (the map) and inst (the time of    *)
(* the last cleanup); the position of a handler says which it holds.       *)
(* HashMap::clear is taken in two steps, so that a map that is cleared in  *)
(* part is a state.  addr and port of a handler are the key it passes.     *)
(***************************************************************************)
\* allowed.lock() in which check_cleanup's hold does not count.
allowed_locked_cleanup_unlocked(ps) ==
    \E p \in DOMAIN ps : ps[p].pc \in {"ga_locked", "aa_locked"}

\* TRUE iff a handler holds the mutex of the map.
allowed_locked(ps) ==
    \E p \in DOMAIN ps :
        ps[p].pc \in {"ga_locked", "aa_locked", "cc_allowed_locked",
                      "cc_clearing"}

\* TRUE iff a handler holds the mutex of the time of the last cleanup.
inst_locked(ps) ==
    \E p \in DOMAIN ps :
        ps[p].pc \in {"cc_inst_locked", "cc_lock_allowed",
                      "cc_allowed_locked", "cc_clearing"}

InitCache ==
    /\ mysql_has_priority = FALSE
    /\ enable_x_real_ip_header = FALSE
    /\ now = 0
    /\ seq_id = 0
    /\ id_to_port = {}
    /\ challenge_factor = {}
    /\ allowed_ip = EmptyBag
    /\ cached_allowed = {}
    /\ cached_inst = 0
    /\ hist = NoHist
    /\ procs = [p \in 1 .. MaxProcs |-> Idle]
    /\ overflow_checks = FALSE
    /\ vcr = NoVcr
    /\ upstream_call = NoFwd
    /\ process = NoProcess
    /\ acceptor = NoAcceptor
    /\ work = NoWork
    /\ seq_call = NoSeqCall

CacheFrame == <<config, store, hist, calls>>

\* A handler calls one of the three, with the remote address of its request.
cached_allow_call(p) ==
    /\ procs[p].pc = "idle"
    /\ \E pc \in {"ga_lock", "aa_lock", "cc_lock_inst"} :
           \E addr \in Addrs : \E sport \in SrcPorts :
               Goto(p, pc, addr, NoId, <<>>, sport)
    /\ UNCHANGED <<now, cache, CacheFrame>>

\* get_allowed: lock the map; then look the key up, remove it unless it is
\* fresh, and return (which unlocks).
get_allowed_step(p) ==
    \/ /\ procs[p].pc = "ga_lock"
       /\ ~allowed_locked(procs)
       /\ Goto(p, "ga_locked", procs[p].addr, NoId, <<>>, procs[p].port)
       /\ UNCHANGED <<now, cache, CacheFrame>>
    \/ /\ procs[p].pc = "ga_locked"
       /\ cached_allowed' =
              get_allowed(cached_allowed, <<procs[p].addr, procs[p].port>>,
                          CACHED_TIMEOUT).allowed
       /\ Done(p)
       /\ UNCHANGED <<now, cached_inst, CacheFrame>>

\* add_allowed: lock the map; then insert the key and return.
add_allowed_step(p) ==
    \/ /\ procs[p].pc = "aa_lock"
       /\ ~allowed_locked(procs)
       /\ Goto(p, "aa_locked", procs[p].addr, NoId, <<>>, procs[p].port)
       /\ UNCHANGED <<now, cache, CacheFrame>>
    \/ /\ procs[p].pc = "aa_locked"
       /\ cached_allowed' =
              add_allowed(cached_allowed, <<procs[p].addr, procs[p].port>>)
       /\ Done(p)
       /\ UNCHANGED <<now, cached_inst, CacheFrame>>

\* check_cleanup: lock inst; return unless the period has passed; else set
\* inst, lock the map, clear it and return.
check_cleanup_step(p) ==
    \/ /\ procs[p].pc = "cc_lock_inst"
       /\ ~inst_locked(procs)
       /\ Goto(p, "cc_inst_locked", procs[p].addr, NoId, <<>>, procs[p].port)
       /\ UNCHANGED <<now, cache, CacheFrame>>
    \/ /\ procs[p].pc = "cc_inst_locked"
       /\ IF now - cached_inst > CACHED_CLEANUP_TIMEOUT
          THEN /\ cached_inst' = now
               /\ Goto(p, "cc_lock_allowed", procs[p].addr, NoId, <<>>,
                       procs[p].port)
          ELSE /\ cached_inst' = cached_inst
               /\ Done(p)
       /\ UNCHANGED <<now, cached_allowed, CacheFrame>>
    \/ /\ procs[p].pc = "cc_lock_allowed"
       /\ ~allowed_locked(procs)
       /\ Goto(p, "cc_allowed_locked", procs[p].addr, NoId, <<>>,
               procs[p].port)
       /\ UNCHANGED <<now, cache, CacheFrame>>
    \/ /\ procs[p].pc = "cc_allowed_locked"
       /\ \E e \in cached_allowed \cup {[key |-> <<>>, inst |-> 0]} :
              cached_allowed' = cached_allowed \ {e}
       /\ Goto(p, "cc_clearing", procs[p].addr, NoId, <<>>, procs[p].port)
       /\ UNCHANGED <<now, cached_inst, CacheFrame>>
    \/ /\ procs[p].pc = "cc_clearing"
       /\ cached_allowed' = {}
       /\ Done(p)
       /\ UNCHANGED <<now, cached_inst, CacheFrame>>

\* More than the cleanup period passes.
cache_period_passes ==
    /\ now < MaxHours * (CACHED_CLEANUP_TIMEOUT + 1)
    /\ now' = now + CACHED_CLEANUP_TIMEOUT + 1
    /\ UNCHANGED <<cache, procs, CacheFrame>>

cached_allow_step(p) ==
    get_allowed_step(p) \/ add_allowed_step(p) \/ check_cleanup_step(p)

NextCache ==
    \/ \E p \in Procs : cached_allow_call(p)
    \/ \E p \in Procs : get_allowed_step(p)
    \/ \E p \in Procs : add_allowed_step(p)
    \/ \E p \in Procs : check_cleanup_step(p)
    \/ cache_period_passes

\* A handler that is in a call of CachedAllow runs on a worker thread, and a
\* thread that waits for a mutex that is unlocked again and again gets it.
SpecCache ==
    /\ InitCache
    /\ [][NextCache]_vars
    /\ \A p \in Procs : SF_vars(cached_allow_step(p))

(***************************************************************************)
(* Properties.                                                             *)
(***************************************************************************)

\* C1: for every issued challenge id, at most one POST carrying that id is
\* accepted (200 Correct and an allowance inserted), however many POSTs run
\* in parallel, on the sqlite path and on the mysql path.  (Under SpecPar an
\* id is issued at most once.)
C1_AtMostOneAccepted == \A id \in Hashes : hist.accepted[id] <= 1

\* C10: a pending-dispatch id is consumed exactly once: of the factors-js
\* requests carrying the same pending id, at most one obtains the port.
\* (Under SpecPar an id is issued at most once.)
C10_PendingTakenOnce == \A id \in Hashes : hist.taken[id] <= 1

(***************************************************************************)
(* The claims about a single request are stated over the handlers'         *)
(* results: in every reachable state, whatever request arrives next, the   *)
(* handler's response and the tables it leaves are as claimed.             *)
(***************************************************************************)

\* An allowance record of (addr, port) that is valid by the data model:
\* now - granted_at < allowance_timeout.
HasUnexpiredAllowance(addr, port) ==
    \E row \in DOMAIN allowed_ip :
        /\ row.ip = addr /\ row.port = port
        /\ now - row.on_time < allowed_timeout_mins

\* Any allowance record of (addr, port), expired or not.
HasAllowanceRow(addr, port) ==
    \E row \in DOMAIN allowed_ip : row.ip = addr /\ row.port = port

\* The results handler_fn can have for req.
handler_fn_results(req) ==
    LET b == handler_fn_result(req, NoId, NoUpstream).branch
    IN  {handler_fn_result(req, hash, up) :
            hash \in IF b = "html" THEN itp_fresh ELSE {NoId},
            up \in UpstreamResults}

\* The results factors_js_fn can have for req.
factors_js_fn_results(req) ==
    LET b == factors_js_fn_result(req, <<>>, NoId).branch
    IN  IF b \in {"js", "insert_err"}
        THEN {factors_js_fn_result(req, factors, hash) :
                 factors \in GenFactors, hash \in cf_fresh}
        ELSE {factors_js_fn_result(req, <<>>, NoId)}

\* C2: handler_fn forwards a request only if (client address, bound port) has
\* an unexpired allowance; otherwise it does not contact the upstream and
\* returns 200 with the HTML shell embedding a newly created pending id that
\* is mapped to the bound port.  (Stated for the requests whose client
\* address can be determined.)
C2_ForwardOnlyIfAllowed ==
    \A req \in HandlerReqs :
        LET a == get_client_ip_addr(req)
        IN  ~a.err =>
              \A r \in handler_fn_results(req) :
                  IF HasUnexpiredAllowance(a.addr, req.lport)
                  THEN r.fwd
                  ELSE /\ ~r.fwd
                       /\ r.status = 200
                       /\ r.id \in Hashes
                       /\ \A row \in r.itp :
                              row.id = r.id =>
                                  row = [id |-> r.id, port |-> req.lport,
                                         on_time |-> now]
                       /\ \E row \in r.itp : row.id = r.id

\* C3: cross-port isolation: a client address with an allowance on port P
\* only is answered with the challenge page, and is never forwarded, on
\* every other listener port Q, whatever it did on P before.
C3_CrossPortIsolation ==
    \A req \in HandlerReqs :
        LET a == get_client_ip_addr(req)
        IN  (/\ ~a.err
             /\ \E P \in Ports \ {req.lport} : HasAllowanceRow(a.addr, P)
             /\ ~HasAllowanceRow(a.addr, req.lport))
            => \A r \in handler_fn_results(req) :
                   ~r.fwd /\ r.branch = "html"

\* The allowance table ai with one more record `row`.
IsWithOneMore(ai2, ai, row) ==
    \A e \in BagToSet(ai2) \cup BagToSet(ai) \cup {row} :
        CopiesIn(e, ai2) = CopiesIn(e, ai) + (IF e = row THEN 1 ELSE 0)

\* C4: the port of an allowance is the bound port of the request that got
\* the HTML shell: the pending id carries the bound port of that request, the
\* challenge record carries the port of the pending id, and the allowance
\* carries the port of the challenge record; the listener ports of the
\* worker-script request and of the verify request play no part.
C4_PortFollowsHtmlRequest ==
    /\ \A req \in HandlerReqs : \A r \in handler_fn_results(req) :
           r.branch = "html" =>
               [id |-> r.id, port |-> req.lport, on_time |-> now] \in r.itp
    /\ \A req \in FactorsJsReqs : \A r \in factors_js_fn_results(req) :
           r.branch = "js" =>
               \E row \in id_to_port :
                   /\ row.id = req.id
                   /\ \E rec \in r.cf \ challenge_factor :
                          rec.id = r.id /\ rec.port = row.port
                   /\ \A rec \in r.cf \ challenge_factor :
                          rec.port = row.port
    /\ \A req \in ApiReqs :
           LET r == api_fn_result(req)
           IN  r.status = 200 =>
                   \E rec \in challenge_factor :
                       /\ rec.id = req.id
                       /\ IsWithOneMore(r.ai, allowed_ip,
                              [ip |-> rec.ip, port |-> rec.port,
                               on_time |-> now])

\* A verify request through another listener than the port of its challenge
\* is accepted, and the allowance is for the port of the challenge.
C4_Witness ==
    \E req \in ApiReqs : \E rec \in challenge_factor :
        /\ rec.id = req.id /\ rec.port # req.lport
        /\ api_fn_result(req).status = 200
        /\ api_fn_result(req).port = rec.port

\* A challenge record is live: now - issued_at < challenge_timeout.
IsLive(rec) == now - rec.on_time < challenge_timeout_mins

\* C5: a POST with the id and the factor string of a live challenge, sent from
\* a client address other than the one stored with the challenge, gets 400
\* and creates no allowance.
C5_OtherAddressRejected ==
    \A req \in ApiReqs : \A rec \in challenge_factor :
        LET a == get_client_ip_addr(req)
            r == api_fn_result(req)
        IN  (/\ req.json /\ ~a.err
             /\ IsLive(rec)
             /\ rec.id = req.id /\ rec.factors = blake3(req.factors)
             /\ a.addr # rec.ip)
            => r.status = 400 /\ r.ai = allowed_ip

\* Such a POST arrives and is refused because of its address.
C5_Witness ==
    \E req \in ApiReqs : \E rec \in challenge_factor :
        /\ req.json /\ ~get_client_ip_addr(req).err
        /\ IsLive(rec)
        /\ rec.id = req.id /\ rec.factors = blake3(req.factors)
        /\ get_client_ip_addr(req).addr # rec.ip
        /\ api_fn_result(req).status = 400
        /\ api_fn_result(req).branch = "ip_mismatch"

\* C6: a POST with the id of a stored challenge and a well-formed factor
\* string whose digest differs from the stored digest gets 400 (Incorrect) and
\* creates no allowance.
C6_WrongFactorsRejected ==
    \A req \in ApiReqs :
        LET a == get_client_ip_addr(req)
            r == api_fn_result(req)
        IN  (/\ req.json /\ ~a.err
             /\ validate_client_response(req.factors)
             /\ \E rec \in challenge_factor : rec.id = req.id
             /\ \A rec \in challenge_factor :
                    rec.id = req.id => rec.factors # blake3(req.factors))
            => r.status = 400 /\ r.ai = allowed_ip

\* Such a POST arrives, from the address of the challenge, while the
\* challenge is live.
C6_Witness ==
    \E req \in ApiReqs : \E rec \in challenge_factor :
        /\ req.json /\ validate_client_response(req.factors)
        /\ ~get_client_ip_addr(req).err
        /\ get_client_ip_addr(req).addr = rec.ip
        /\ IsLive(rec)
        /\ rec.id = req.id /\ rec.factors # blake3(req.factors)
        /\ api_fn_result(req).status = 400
        /\ api_fn_result(req).branch = "no_row"

\* C7: a POST with the right id and factors whose challenge record is of age
\* challenge_timeout or more (now - issued_at >= challenge_timeout) gets 400
\* and creates no allowance.
C7_ExpiredChallengeRejected ==
    \A req \in ApiReqs : \A rec \in challenge_factor :
        LET a == get_client_ip_addr(req)
            r == api_fn_result(req)
        IN  (/\ req.json /\ ~a.err
             /\ rec.id = req.id /\ rec.factors = blake3(req.factors)
             /\ now - rec.on_time >= challenge_timeout_mins)
            => r.status = 400 /\ r.ai = allowed_ip

\* C8: check(address, port) at time t' is true exactly when an allowance
\* record of (address, port) granted at t with t' - t < allowance_timeout
\* exists; an allowance of age allowance_timeout or more never admits.
C8_AllowanceExpiry ==
    \A addr \in Addrs : \A port \in Ports :
        LET chk == IF mysql_has_priority
                   THEN check_is_allowed_mysql(allowed_ip, addr, port)
                   ELSE check_is_allowed_sqlite(allowed_ip, addr, port)
        IN  chk.is_allowed <=> HasUnexpiredAllowance(addr, port)

\* C9: a POST from the address of a live challenge with its id and its factor
\* string gets 200, the challenge record is deleted and an allowance of (that
\* address, the challenge's port) is recorded; a worker script is delivered
\* only with a challenge record of the requesting address and the pending
\* id's port; and a request of an address on a port for which it has an
\* unexpired allowance is forwarded instead of challenged.
C9_HappyPath ==
    /\ \A req \in FactorsJsReqs : \A r \in factors_js_fn_results(req) :
           r.branch = "js" =>
               \E row \in id_to_port : \E f \in GenFactors :
                   /\ row.id = req.id
                   /\ r.status = 200
                   /\ [id |-> r.id, factors |-> blake3(f),
                       ip |-> get_client_ip_addr(req).addr,
                       port |-> row.port, on_time |-> now] \in r.cf
    /\ \A req \in ApiReqs : \A rec \in challenge_factor :
           LET a == get_client_ip_addr(req)
               r == api_fn_result(req)
           IN  (/\ req.json /\ ~a.err
                /\ IsLive(rec)
                /\ rec.id = req.id /\ rec.factors = blake3(req.factors)
                /\ a.addr = rec.ip)
               => /\ r.status = 200
                  /\ \A x \in r.cf : x.id # req.id
                  /\ IsWithOneMore(r.ai, allowed_ip,
                         [ip |-> a.addr, port |-> rec.port, on_time |-> now])
    /\ \A req \in HandlerReqs :
           LET a == get_client_ip_addr(req)
           IN  (~a.err /\ HasUnexpiredAllowance(a.addr, req.lport))
               => \A r \in handler_fn_results(req) :
                      r.fwd /\ r.branch \in {"forward", "forward_err"}

\* A client has been verified: its allowance is in the table and unexpired,
\* nothing is cached, and its next request on that port is forwarded.
C9_Witness ==
    /\ cached_allowed = {}
    /\ challenge_factor = {}
    /\ \E req \in HandlerReqs :
           /\ ~get_client_ip_addr(req).err
           /\ HasUnexpiredAllowance(get_client_ip_addr(req).addr, req.lport)
           /\ handler_fn_result(req, NoId, [ok |-> TRUE, status |-> 200]).branch
                  = "forward"

(***************************************************************************)
(* Factor-list strings read as text: the tokens of a string are its        *)
(* maximal runs of characters that are not whitespace, and the numbers are *)
(* compared as decimal numerals of any length.                             *)
(***************************************************************************)
TokenStarts(s) ==
    {i \in 1 .. Len(s) :
        ~is_whitespace(s[i]) /\ (i = 1 \/ is_whitespace(s[i - 1]))}

TokenEnd(s, i) ==
    CHOOSE j \in i .. Len(s) :
        /\ \A k \in i .. j : ~is_whitespace(s[k])
        /\ j = Len(s) \/ is_whitespace(s[j + 1])

Token(s, i) == SubSeq(s, i, TokenEnd(s, i))

AllDigits(d) == \A k \in 1 .. Len(d) : d[k] \in Digits

\* The token is <digits>x<digits>, both parts with a digit at least.
IsFactorToken(tok) ==
    \E k \in 2 .. Len(tok) - 1 :
        /\ tok[k] = "x"
        /\ AllDigits(SubSeq(tok, 1, k - 1))
        /\ AllDigits(SubSeq(tok, k + 1, Len(tok)))

\* The token has a number before an 'x'.
HasPrime(tok) ==
    \E k \in 2 .. Len(tok) : tok[k] = "x" /\ AllDigits(SubSeq(tok, 1, k - 1))

\* The digits before the first 'x' of the token, and those after it.
PrimeOf(tok) ==
    SubSeq(tok, 1, (CHOOSE k \in 1 .. Len(tok) :
                       tok[k] = "x" /\ \A j \in 1 .. k - 1 : tok[j] # "x") - 1)

MultOf(tok) ==
    SubSeq(tok, (CHOOSE k \in 1 .. Len(tok) :
                    tok[k] = "x" /\ \A j \in 1 .. k - 1 : tok[j] # "x") + 1,
           Len(tok))

\* The numeral without its leading zeros.
Significant(d) ==
    IF \A k \in 1 .. Len(d) : d[k] = "0" THEN <<>>
    ELSE SubSeq(d, CHOOSE k \in 1 .. Len(d) :
                       d[k] # "0" /\ \A j \in 1 .. k - 1 : d[j] = "0",
                Len(d))

\* value(a) < value(b), for numerals a and b
DecLess(a, b) ==
    LET x == Significant(a)
        y == Significant(b)
    IN  \/ Len(x) < Len(y)
        \/ /\ Len(x) = Len(y)
           /\ \E i \in 1 .. Len(x) :
                  /\ to_digit(x[i]) < to_digit(y[i])
                  /\ \A j \in 1 .. i - 1 : x[j] = y[j]

\* Some token's number before 'x' is less than or equal to that of an
\* earlier token.
OutOfOrder(s) ==
    \E i, j \in TokenStarts(s) :
        /\ i < j
        /\ HasPrime(Token(s, i)) /\ HasPrime(Token(s, j))
        /\ ~DecLess(PrimeOf(Token(s, i)), PrimeOf(Token(s, j)))

\* A canonical factor list: one or more tokens <p>x<m> of decimal digits
\* separated by single spaces, the p strictly increasing from 2 or more, the
\* m at least 1, no leading or trailing whitespace.
Canonical(s) ==
    /\ s # <<>>
    /\ \A i \in 1 .. Len(s) :
           is_whitespace(s[i]) =>
               /\ s[i] = " "
               /\ 1 < i /\ i < Len(s)
               /\ ~is_whitespace(s[i - 1]) /\ ~is_whitespace(s[i + 1])
    /\ \A i \in TokenStarts(s) :
           /\ IsFactorToken(Token(s, i))
           /\ DecLess(<<"1">>, PrimeOf(Token(s, i)))
           /\ DecLess(<<"0">>, MultOf(Token(s, i)))
    /\ ~OutOfOrder(s)

\* C19: validate_client_response returns an error for every input in which
\* the number before 'x' of some token is less than or equal to that of an
\* earlier token, and returns ok for a well-formed list whose primes strictly
\* increase.
C19_StrictlyIncreasingPrimes ==
    vcr.out \in {"ok", "err", "panic"} =>
        /\ OutOfOrder(vcr.resp) => vcr.out = "err"
        /\ (\A i \in TokenStarts(vcr.resp) : IsFactorToken(Token(vcr.resp, i)))
           /\ vcr.resp # <<>> /\ ~OutOfOrder(vcr.resp)
           /\ (\A i \in 1 .. Len(vcr.resp) :
                   is_whitespace(vcr.resp[i]) => 1 < i /\ i < Len(vcr.resp))
           /\ (\A i \in TokenStarts(vcr.resp) :
                   DecLess(<<"0">>, PrimeOf(Token(vcr.resp, i))))
           => vcr.out = "ok"

\* C20: validate_client_response returns ok for every canonical factor list.
C20_CanonicalAccepted ==
    (vcr.out \in {"ok", "err", "panic"} /\ Canonical(vcr.resp))
        => vcr.out = "ok"

\* C11: a GET to the factors-js endpoint without an id, or with an id that is
\* not in ID_TO_PORT, gets a server error (500), creates no challenge record
\* and leaves the sequence, the tables and the cache as they were.
C11_NoPendingIdFails ==
    \A req \in FactorsJsReqs :
        (req.id = NoId \/ req.id \notin itp_ids(id_to_port))
        => \A r \in factors_js_fn_results(req) :
               /\ r.status = 500
               /\ r.cf = challenge_factor
               /\ r.sq = seq_id
               /\ r.itp = id_to_port
               /\ r.ai = allowed_ip
               /\ r.ca = cached_allowed /\ r.ci = cached_inst

\* The pending id of a challenge that was issued is gone, and a request with
\* that id fails for want of the port.
C11_Witness ==
    /\ challenge_factor # {}
    /\ \E req \in FactorsJsReqs :
           /\ req.id \in Hashes /\ req.id \notin itp_ids(id_to_port)
           /\ ~get_client_ip_addr(req).err
           /\ factors_js_fn_result(req, <<>>, NoId).branch = "no_port"
           /\ factors_js_fn_result(req, <<>>, NoId).status = 500

\* C12: every POST to the verify endpoint is answered 200 or 400, and a body
\* that is not the JSON of a FactorsResponse, or whose factors string is
\* refused by validate_client_response, is answered 400.
C12_PostAnswered200Or400 ==
    \A req \in ApiReqs :
        LET r == api_fn_result(req)
        IN  /\ r.status \in {200, 400}
            /\ (~req.json \/ vcr_posted[overflow_checks][req.factors] = "err")
                   => r.status = 400

\* C13: when a statement of the store fails during the verification of a
\* POSTed answer, the answer is 400 and the request adds no allowance.
C13_StoreFaultDuringVerify ==
    \A req \in ApiReqs, fault \in StoreFaults :
        LET r == api_fn_fault_result(req, fault)
        IN  r.branch = "store_err" => r.status = 400 /\ r.ai = allowed_ip

\* A store fault hits a request that api_fn would have answered 200.
C13_Witness ==
    \E req \in ApiReqs, fault \in StoreFaults :
        /\ api_fn_fault_result(req, fault).branch = "store_err"
        /\ api_fn_result(req).status = 200

\* C14: when a statement of the store fails during handler_fn's allowance
\* check (the cache missed), the answer is 500, nothing is forwarded, and
\* the handler returns with the tables as the check left them.
C14_StoreFaultInCheck ==
    \A req \in HandlerReqs, fault \in StoreFaults, up \in UpstreamResults :
        LET r == handler_fn_fault_result(req, NoId, up, fault)
        IN  r.branch = "store_err"
               => /\ r.status = 500 /\ ~r.fwd
                  /\ r.sq = seq_id /\ r.itp = id_to_port
                  /\ r.cf = challenge_factor
                  /\ DOMAIN r.ai \subseteq DOMAIN allowed_ip

\* A store fault hits a request that handler_fn would have forwarded.
C14_Witness ==
    \E req \in HandlerReqs, fault \in StoreFaults, up \in UpstreamResults :
        /\ handler_fn_fault_result(req, NoId, up, fault).branch = "store_err"
        /\ handler_fn_result(req, NoId, up).fwd

\* C15: the upstream of an allowed request is the Override-Dest-Url header's
\* value when enable_override_dest_url is on and the request carries the
\* header; otherwise the url mapped to the bound port if there is one;
\* otherwise the default destination.  With the flag off the header has no
\* influence on the url.
C15_UpstreamResolution ==
    upstream_call.pc \notin {"idle", "allowed"} =>
        LET args == upstream_call.args
            req == upstream_call.req
        IN  /\ upstream_call.url =
                  IF args.enable_override_dest_url /\ req.override # NoHeader
                  THEN req.override
                  ELSE IF req.lport \in DOMAIN args.port_to_dest_urls
                  THEN args.port_to_dest_urls[req.lport]
                  ELSE args.dest_url
            /\ ~args.enable_override_dest_url =>
                  \A o \in OverrideValues :
                      resolve_url(args, [req EXCEPT !.override = o])
                         = upstream_call.url

\* The url has been resolved for a request that carries the header, on a
\* mapped port, with the flag off.
C15_Witness ==
    /\ upstream_call.pc = "resolved"
    /\ ~upstream_call.args.enable_override_dest_url
    /\ upstream_call.req.override # NoHeader
    /\ upstream_call.req.lport \in DOMAIN upstream_call.args.port_to_dest_urls

\* C16: the request sent to the upstream has the inbound request's method
\* and body, for GET and POST with an empty and a non-empty body, and its
\* url is the resolved upstream followed by the inbound path and query.
C16_SameMethodAndBody ==
    upstream_call.pc \in {"ok", "err", "done", "failed"} =>
        /\ upstream_call.sent.method = upstream_call.req.method
        /\ upstream_call.sent.body = upstream_call.req.payload
        /\ upstream_call.sent.url = upstream_call.url \o upstream_call.req.path

\* C17: when the request to the upstream fails at transport level the
\* response is 500 with the short text, and the challenge table, the pending
\* table and the allowance table are as they were before the forwarding.
C17_TransportFailure ==
    upstream_call.pc = "failed" =>
        /\ upstream_call.res.status = 500
        /\ upstream_call.res.body = "Failed to query"
        /\ <<challenge_factor, id_to_port, allowed_ip>> = upstream_call.tables

\* The Err arm has run and the client's allowance is in the table.
C17_Witness ==
    /\ upstream_call.pc = "failed"
    /\ allowed_ip # EmptyBag

\* C18: the status, every response header and the body given to the client
\* are the upstream's.
C18_ResponseEqualsUpstream ==
    upstream_call.pc = "done" =>
        /\ upstream_call.res.status = upstream_call.answer.status
        /\ upstream_call.res.headers = upstream_call.answer.headers
        /\ upstream_call.res.body = upstream_call.answer.body

\* The token has an 'x' with no digit after it, or with no digit before it.
MissingMultiplicity(tok) ==
    \E k \in 1 .. Len(tok) :
        tok[k] = "x" /\ (k = Len(tok) \/ tok[k + 1] \notin Digits)

MissingPrime(tok) ==
    \E k \in 1 .. Len(tok) : tok[k] = "x" /\ (k = 1 \/ tok[k - 1] \notin Digits)

ForeignChar(s) ==
    \E i \in 1 .. Len(s) : s[i] \notin Digits \cup {"x"} /\ ~is_whitespace(s[i])

\* C21: validate_client_response returns an error for every string that has
\* a token with no digit after 'x', a token with no digit before 'x', a
\* character that is neither a digit, 'x' nor whitespace, or that is empty;
\* it accepts only if the last token has its multiplicity.
C21_MalformedRejected ==
    vcr.out \in {"ok", "err", "panic"} =>
        /\ (\/ vcr.resp = <<>>
            \/ ForeignChar(vcr.resp)
            \/ \E i \in TokenStarts(vcr.resp) :
                   \/ MissingMultiplicity(Token(vcr.resp, i))
                   \/ MissingPrime(Token(vcr.resp, i)))
           => vcr.out = "err"
        /\ vcr.out = "ok" =>
               \A i \in TokenStarts(vcr.resp) :
                   (\A j \in TokenStarts(vcr.resp) : j <= i)
                      => ~MissingMultiplicity(Token(vcr.resp, i))

\* C21 without the tokens that have no digit after 'x': the rest of the
\* claim, on the strings whose numbers fit in a u64.
C21_RestRejected ==
    (/\ vcr.out \in {"ok", "err", "panic"}
     /\ vcr.resp \notin {FBig, FBigPrime}
     /\ \/ vcr.resp = <<>>
        \/ ForeignChar(vcr.resp)
        \/ \E i \in TokenStarts(vcr.resp) : MissingPrime(Token(vcr.resp, i)))
        => vcr.out = "err"

\* C22: validate_client_response accepts a valid factor list that is
\* preceded and/or followed by whitespace.
C22_SurroundingWhitespacePermitted ==
    vcr.out \in {"ok", "err", "panic"} =>
        \A a \in 1 .. Len(vcr.resp), b \in 1 .. Len(vcr.resp) :
            (/\ a <= b
             /\ Canonical(SubSeq(vcr.resp, a, b))
             /\ \A i \in (1 .. a - 1) \cup (b + 1 .. Len(vcr.resp)) :
                    is_whitespace(vcr.resp[i]))
               => vcr.out = "ok"

\* C22 on the strings without surrounding whitespace whose numbers fit in a
\* u64.
C22_BareAccepted ==
    (/\ vcr.out \in {"ok", "err", "panic"}
     /\ vcr.resp \notin {FBig, FBigPrime}
     /\ Canonical(vcr.resp))
        => vcr.out = "ok"

\* C23: a start with more than 32 --addr-port options is rejected: the
\* program never binds or serves on more than 32 listeners.
C23_AtMost32Listeners ==
    process.pc # "idle" => process.bound <= 32

\* The arguments of the command line that are the option opt.
HasArg(argv, opt) == \E i \in 1 .. Len(argv) : argv[i].opt = opt

\* C24: parse_args returns an error whenever --enable-override-dest-url is
\* given without --important-warning-has-been-read, in any order of the
\* arguments; with both given (and no --help) it returns the arguments with
\* enable_override_dest_url true.
C24_OverrideNeedsWarningRead ==
    (process.pc # "idle" /\ process.args # NoArgs) =>
        LET en == HasArg(process.argv, "--enable-override-dest-url")
            read == HasArg(process.argv, "--important-warning-has-been-read")
        IN  /\ (en /\ ~read) => ~process.args.ok
            /\ (en /\ ~read) => process.pc \notin {"init", "serving"}
            /\ (en /\ read /\ ~HasArg(process.argv, "--help"))
                  => process.args.ok /\ process.args.enable_override_dest_url

\* parse_args has returned for a command line with the option before the
\* warning option.
C24_Witness ==
    /\ process.pc = "parsed"
    /\ \E i, j \in 1 .. Len(process.argv) :
          /\ i < j
          /\ process.argv[i].opt = "--enable-override-dest-url"
          /\ process.argv[j].opt = "--important-warning-has-been-read"

\* C26: after SIGINT, SIGHUP or SIGTERM is delivered the flag is set, and
\* the process ends with its requests in flight answered.
C26_SignalSetsFlagAndDrains ==
    (process.pc # "idle" /\ process.signal # NoSignal) =>
        /\ process.SIGNAL_HANDLED
        /\ process.aborted = 0

\* C25: under repeated calls of accept a listener that has a connection
\* waiting is served in the end, also when another listener has a connection
\* waiting at every call.
C25_NoListenerStarved ==
    \A i \in Acceptors :
        (acceptor.pc = "serving" /\ acceptor.pending[i] > 0)
            ~> (acceptor.last = i /\ ~acceptor.err)

\* C27: no two challenge records share an id, and the INSERT of a record
\* whose id is in the table fails and leaves the table as it was, also when
\* two challenges are set up at the same time.
C27_ChallengeIdUnique ==
    /\ [](\A r1, r2 \in challenge_factor : r1.id = r2.id => r1 = r2)
    /\ [][\A p \in Procs :
            (procs[p].pc = "insert" /\ procs'[p].pc # "insert"
             /\ procs[p].id \in cf_ids(challenge_factor))
               => /\ procs'[p].pc = "insert_err"
                  /\ challenge_factor' = challenge_factor]_vars

\* Two handlers have drawn the same id at the same time: the INSERT of the
\* one has succeeded and that of the other has failed.
C27_Witness ==
    \E p, q \in Procs :
        /\ procs[p].pc = "inserted" /\ procs[q].pc = "insert_err"
        /\ procs[p].id = procs[q].id

\* The number a numeral of a few digits stands for.
RECURSIVE ToInt(_)
ToInt(d) ==
    IF d = <<>> THEN 0
    ELSE 10 * ToInt(SubSeq(d, 1, Len(d) - 1)) + to_digit(d[Len(d)])

RECURSIVE TimesPower(_, _, _)
TimesPower(num, p, m) ==
    IF m = 0 THEN num ELSE TimesPower(big_mul(num, p, 0), p, m - 1)

\* The product of prime^multiplicity over the tokens that start at starts.
RECURSIVE MultipliedOut(_, _)
MultipliedOut(s, starts) ==
    IF starts = {} THEN <<"1">>
    ELSE LET i == CHOOSE j \in starts : TRUE
         IN  TimesPower(MultipliedOut(s, starts \ {i}),
                        ToInt(PrimeOf(Token(s, i))), ToInt(MultOf(Token(s, i))))

\* The place of a character in the base64 alphabet.
Base64Index(c) == (CHOOSE k \in 1 .. 64 : Base64Alphabet[k] = c) - 1

\* The numeral an encoded value decodes to: the characters after the leading
\* B are six bits each, and the bits are decimal digits of four bits each,
\* counted from the end.
Decoded(value) ==
    LET n == Len(value) - 1
        bit(i) == LET x == Base64Index(value[2 + (i - 1) \div 6])
                      k == (i - 1) % 6
                  IN  CASE k = 0 -> x \div 32
                        [] k = 1 -> (x \div 16) % 2
                        [] k = 2 -> (x \div 8) % 2
                        [] k = 3 -> (x \div 4) % 2
                        [] k = 4 -> (x \div 2) % 2
                        [] k = 5 -> x % 2
        skip == (6 * n) % 4
        digit(j) == 8 * bit(skip + 4 * j - 3) + 4 * bit(skip + 4 * j - 2)
                    + 2 * bit(skip + 4 * j - 1) + bit(skip + 4 * j)
    IN  Significant([j \in 1 .. (6 * n) \div 4 |-> to_char(digit(j))])

CacheTtl ==
    IF allowed_timeout_mins < CACHED_TIMEOUT THEN allowed_timeout_mins
    ELSE CACHED_TIMEOUT

\* C29: a cache entry whose age has reached the shorter of the allowance
\* timeout and 120 seconds is not a hit: the request is decided by the
\* store's allowance check.
C29_CacheEntryValidBelowShorterTimeout ==
    \A req \in HandlerReqs, hash \in Hashes, up \in UpstreamResults :
        LET r == handler_fn_result(req, hash, up)
            a == get_client_ip_addr(req)
            chk == IF mysql_has_priority
                   THEN check_is_allowed_mysql(allowed_ip, a.addr, req.lport)
                   ELSE check_is_allowed_sqlite(allowed_ip, a.addr, req.lport)
        IN  (/\ ~a.err
             /\ \E e \in check_cleanup(cached_allowed, cached_inst).allowed :
                    e.key = remote_addr(req) /\ now - e.inst >= CacheTtl)
                => /\ r.fwd = chk.is_allowed
                   /\ r.ai = chk.ai

\* The request with x in the place of its X-Real-IP header.
WithXReal(req, x) == [req EXCEPT !.xreal = x]

\* The address the claim gives the request.
ClientAddr(req) ==
    IF enable_x_real_ip_header /\ req.xreal # NoHeader THEN req.xreal
    ELSE req.rip

\* The cache has nothing for the socket address of the request.
NotCached(req) ==
    \A e \in check_cleanup(cached_allowed, cached_inst).allowed :
        e.key # remote_addr(req)

\* C30: the client address is the X-Real-IP header only when the option
\* is on and the header is there, and an empty header is then an error;
\* with the option off the header changes nothing of what the three handlers
\* do, and the allowance check, the challenge record and the comparison of
\* the verification use the socket's remote ip.
C30_XRealIpOnlyWhenEnabled ==
    /\ \A req \in HandlerReqs, hash \in Hashes, up \in UpstreamResults :
           LET r == handler_fn_result(req, hash, up)
               chk == IF mysql_has_priority
                      THEN check_is_allowed_mysql(allowed_ip, ClientAddr(req),
                                                  req.lport)
                      ELSE check_is_allowed_sqlite(allowed_ip, ClientAddr(req),
                                                   req.lport)
           IN  /\ ~enable_x_real_ip_header =>
                      \A x \in XRealValues :
                          handler_fn_result(WithXReal(req, x), hash, up) = r
               /\ (enable_x_real_ip_header /\ req.xreal = "")
                      => r.status = 500 /\ ~r.fwd
               /\ (NotCached(req) /\ ClientAddr(req) # "")
                      => r.fwd = chk.is_allowed
    /\ \A req \in FactorsJsReqs, factors \in GenFactors, hash \in Hashes :
           LET r == factors_js_fn_result(req, factors, hash)
           IN  /\ ~enable_x_real_ip_header =>
                      \A x \in XRealValues :
                          factors_js_fn_result(WithXReal(req, x), factors,
                                               hash) = r
               /\ (enable_x_real_ip_header /\ req.xreal = "")
                      => r.status = 500 /\ r.cf = challenge_factor
               /\ \A rec \in r.cf \ challenge_factor :
                      rec.ip = ClientAddr(req)
    /\ \A req \in ApiReqs :
           LET r == api_fn_result(req)
           IN  /\ ~enable_x_real_ip_header =>
                      \A x \in XRealValues :
                          api_fn_result(WithXReal(req, x)) = r
               /\ (enable_x_real_ip_header /\ req.xreal = "")
                      => r.status = 500 /\ r.ai = allowed_ip
               /\ r.status = 200 =>
                      \E rec \in challenge_factor :
                          rec.id = req.id /\ rec.ip = ClientAddr(req)

\* With the option on, a request whose header names another address than
\* its socket's is forwarded on the allowance of the header's address.
C30_Witness ==
    /\ enable_x_real_ip_header
    /\ \E req \in HandlerReqs :
           /\ req.xreal \in Addrs /\ req.xreal # req.rip
           /\ NotCached(req)
           /\ ~HasAllowanceRow(req.rip, req.lport)
           /\ handler_fn_result(req, NoId, [ok |-> TRUE, status |-> 200]).fwd

\* C31: the existence check of the id generation answers true exactly for
\* the ids of the challenge table, and the redraw loop never ends on an id
\* that is in the table.
C31_ChallengeExistsIsExact ==
    /\ [](\A hash \in Hashes :
              (IF mysql_has_priority
               THEN has_challenge_factor_id_mysql(challenge_factor, hash)
               ELSE has_challenge_factor_id_sqlite(challenge_factor, hash))
                  <=> (\E rec \in challenge_factor : rec.id = hash))
    /\ [][\A p \in Procs :
            (procs[p].pc = "draw" /\ procs'[p].pc = "insert")
                => \A rec \in challenge_factor : rec.id # procs'[p].id]_vars

\* C32: from the empty table the first call of next_seq returns 1, every
\* later call returns what the call before it returned plus 1, and the
\* stored counter goes back to 1 when it reaches 2^31 and not before.
C32_NextSeqCountsFromOne ==
    (seq_call.pc = "called" /\ seq_call.n > 0) =>
        /\ seq_call.before = 0 => seq_call.seq = 1
        /\ (seq_call.n > 1 /\ seq_call.prev < SEQ_WRAP_MYSQL)
               => seq_call.seq = seq_call.prev + 1
        /\ (seq_call.before # 0 /\ seq_call.before < SEQ_WRAP_MYSQL)
               => seq_id = seq_call.before + 1

\* C33: the take of a verification that finds a record by id and factors
\* digest deletes it, whatever the address of the requester is.
C33_TakeConsumesFoundRecord ==
    \A req \in ApiReqs :
        LET r == api_fn_result(req)
        IN  (/\ r.branch \notin {"addr_err", "json_err", "panic", "format_err"}
             /\ \E rec \in challenge_factor :
                    rec.id = req.id /\ rec.factors = blake3(req.factors))
                => \A rec \in r.cf : rec.id # req.id

\* C34: a factors-js request whose pending id is as old as the challenge
\* timeout or older gets no port and no challenge.
C34_ExpiredPendingNotTaken ==
    \A req \in FactorsJsReqs, factors \in GenFactors, hash \in Hashes :
        LET r == factors_js_fn_result(req, factors, hash)
        IN  (\E row \in id_to_port :
                 /\ row.id = req.id
                 /\ now - row.on_time >= challenge_timeout_mins)
                => /\ r.status # 200
                   /\ r.cf = challenge_factor

\* C35: the allowance table holds one record at most for a client address
\* and bound port.
C35_OneAllowancePerAddressAndPort ==
    \A r1, r2 \in DOMAIN allowed_ip :
        /\ allowed_ip[r1] = 1
        /\ (r1.ip = r2.ip /\ r1.port = r2.port) => r1 = r2

\* C36: the call of accept gives the error of a listener only when no other
\* listener has a connection waiting, and a connection that waits on another
\* listener is accepted by a later call.
C36_AcceptErrorIsOfItsListenerOnly ==
    /\ [][\A i \in Acceptors :
            (acceptor.failed[i] /\ ~acceptor'.failed[i])
                => \A j \in Acceptors \ {i} : acceptor.pending[j] = 0]_vars
    /\ \A i \in Acceptors :
           (acceptor.pc = "serving" /\ acceptor.err /\ acceptor.last # i
            /\ acceptor.pending[i] > 0)
               ~> (acceptor.last = i /\ ~acceptor.err)

\* C37: with the X-Real-IP option on, a request whose client address has no
\* allowance record for the bound port is not forwarded, whatever the cache
\* holds for the socket address it comes from.
C37_CacheAdmitsItsClientOnly ==
    \A req \in HandlerReqs, up \in UpstreamResults :
        (/\ enable_x_real_ip_header
         /\ req.xreal \in Addrs
         /\ ~HasAllowanceRow(req.xreal, req.lport))
            => ~handler_fn_result(req, NoId, up).fwd

\* C38: a verification that fails because its factor string is malformed or
\* has another digest than the challenge's leaves the challenge record as it
\* is, and a POST of the right factors from the issuing address is accepted
\* on the tables it leaves.
C38_FailedVerifyKeepsRecord ==
    \A req \in ApiReqs : \A rec \in challenge_factor :
        LET a == get_client_ip_addr(req)
            r == api_fn_result(req)
        IN  (/\ req.json /\ ~a.err
             /\ IsLive(rec) /\ rec.id = req.id
             /\ \/ ~validate_client_response(req.factors)
                \/ rec.factors # blake3(req.factors))
            => /\ r.status # 200
               /\ rec \in r.cf
               /\ \A f \in GenFactors :
                      blake3(f) = rec.factors =>
                          (IF mysql_has_priority
                           THEN validate_client_mysql(r.cf, r.ai, rec.id, f,
                                                      rec.ip)
                           ELSE validate_client_sqlite(r.cf, r.ai, rec.id, f,
                                                       rec.ip)).ok

\* A POST of well-formed factors with another digest arrives from the
\* issuing address while the challenge is live, and is refused; so does one
\* of a malformed factor string.
C38_Witness ==
    \E rec \in challenge_factor :
        /\ IsLive(rec)
        /\ \E req \in ApiReqs :
               /\ ~get_client_ip_addr(req).err
               /\ get_client_ip_addr(req).addr = rec.ip /\ req.id = rec.id
               /\ validate_client_response(req.factors)
               /\ rec.factors # blake3(req.factors)
               /\ api_fn_result(req).branch = "no_row"
               /\ rec \in api_fn_result(req).cf
        /\ \E req \in ApiReqs :
               /\ ~get_client_ip_addr(req).err
               /\ get_client_ip_addr(req).addr = rec.ip /\ req.id = rec.id
               /\ api_fn_result(req).branch = "format_err"
               /\ rec \in api_fn_result(req).cf

\* C39: validate_client_response compares the primes by their true values
\* whatever their length is: it does not abort, it accepts no list in which
\* a prime is less than or equal to an earlier one, and it rejects no
\* canonical list.
C39_OrderCheckOnTrueValues ==
    vcr.out \in {"ok", "err", "panic"} =>
        /\ vcr.out # "panic"
        /\ vcr.out = "ok" => ~OutOfOrder(vcr.resp)
        /\ Canonical(vcr.resp) => vcr.out # "err"

\* C40: concurrent calls of get_allowed, add_allowed and check_cleanup do
\* not deadlock and see no map that is cleared in part: a handler that looks
\* at the map or inserts into it does so while no check_cleanup is clearing
\* it, a handler that takes the mutex of the timestamp holds the mutex of
\* the map neither before nor right after it (check_cleanup takes the
\* timestamp's first, get_allowed and add_allowed take the map's only), and
\* every call returns.
InMap == {"ga_locked", "aa_locked"}
Clearing == {"cc_allowed_locked", "cc_clearing"}
HoldsMap == InMap \cup Clearing
HoldsInst == {"cc_inst_locked", "cc_lock_allowed"} \cup Clearing

====
